---- MODULE Spec2Model ----
(***************************************************************************)
(* A model of the Telegram bot's AI core (src/ai_core.py), of the two       *)
(* callers of the core (src/bot.py, src/ai_http_api.py) and of the          *)
(* conversation store (src/database.py).                                    *)
(*                                                                          *)
(* Texts are sequences of characters.  The pattern tables are those of the  *)
(* source; a regular expression of the source is a record                   *)
(*   [anch, wb, ws, alts]                                                   *)
(* where alts lists its alternatives in order, every alternative a chain    *)
(* of literals joined by ".*", anch says that it starts with "^", wb that   *)
(* every literal stands between two "\b", ws that "\s" ends it.             *)
(***************************************************************************)
EXTENDS Integers, Sequences, FiniteSets, TLC

\* The characters of the model's texts, one string per character: an ASCII
\* character is itself, any other character is named by its code point.

Alphabet ==
    {" ", "!", "'", ",", "-", ".", "/", "0", "1", "2",
     "3", "4", "5", "6", "7", "8", "9", ":", "?", "A",
     "B", "C", "D", "E", "F", "G", "H", "I", "J", "K",
     "L", "M", "N", "O", "P", "Q", "R", "S", "T", "U",
     "V", "W", "X", "Y", "Z", "[", "]", "_", "a", "b",
     "c", "d", "e", "f", "g", "h", "i", "j", "k", "l",
     "m", "n", "o", "p", "q", "r", "s", "t", "u", "v",
     "w", "x", "y", "z", "U+00E1", "U+00E4", "U+00E8", "U+00E9", "U+00F3", "U+00F6",
     "U+00F9", "U+00FB", "U+0622", "U+0623", "U+0625", "U+0626", "U+0627", "U+0628", "U+0629", "U+062A",
     "U+062B", "U+062D", "U+062E", "U+062F", "U+0630", "U+0631", "U+0632", "U+0633", "U+0634", "U+0635",
     "U+0639", "U+0641", "U+0642", "U+0643", "U+0644", "U+0645", "U+0646", "U+0647", "U+0648", "U+0649",
     "U+064A", "U+3042", "U+3044", "U+3046", "U+304A", "U+304B", "U+304C", "U+304F", "U+3051", "U+3053",
     "U+3059", "U+305C", "U+305F", "U+3061", "U+3063", "U+3064", "U+3066", "U+3067", "U+3068", "U+3069",
     "U+306A", "U+306B", "U+306F", "U+3072", "U+307E", "U+3084", "U+3088", "U+3089", "U+308A", "U+3093",
     "U+30A4", "U+30AB", "U+30AC", "U+30B9", "U+30BF", "U+30C7", "U+30C8", "U+30C9", "U+30CA", "U+30CB",
     "U+30D7", "U+30D8", "U+30D9", "U+30E5", "U+30EB", "U+30F3", "U+30FC", "U+4E00", "U+4E0A", "U+4E3A",
     "U+4E48", "U+4E86", "U+4E8B", "U+4EBA", "U+4EC0", "U+4ECA", "U+4EF6", "U+4EF7", "U+4F4F", "U+4F55",
     "U+4F60", "U+4FA1", "U+5019", "U+5206", "U+52A9", "U+52DD", "U+5357", "U+53E3", "U+53F7", "U+54EA",
     "U+5728", "U+5730", "U+5740", "U+591A", "U+5929", "U+597D", "U+5B9A", "U+5C11", "U+5E2E", "U+5FEB",
     "U+600E", "U+6240", "U+6307", "U+636E", "U+6570", "U+65B0", "U+65E5", "U+65E9", "U+65F6", "U+660E",
     "U+662F", "U+6700", "U+6790", "U+683C", "U+73B0", "U+756A", "U+7684", "U+771F", "U+7801", "U+7D30",
     "U+7D71", "U+7EC6", "U+7EDF", "U+7F6E", "U+89E3", "U+8A08", "U+8A2D", "U+8A73", "U+8AAC", "U+8AB0",
     "U+8BA1", "U+8BBE", "U+8BE6", "U+8C01", "U+8C22", "U+8D62", "U+8FD1", "U+91CA", "U+91CC", "U+95FB",
     "U+9FAF", "U+AC00", "U+AC10", "U+AC74", "U+AC8C", "U+ACA9", "U+ACBC", "U+ACC4", "U+AD6C", "U+AE08",
     "U+AE4C", "U+B098", "U+B155", "U+B204", "U+B274", "U+B298", "U+B2C8", "U+B2E4", "U+B370", "U+B3C4",
     "U+B4DC", "U+B514", "U+B5BB", "U+B9AC", "U+B9C8", "U+B9D0", "U+BA85", "U+BB34", "U+BC88", "U+BD84",
     "U+BE68", "U+C0AC", "U+C11C", "U+C11D", "U+C124", "U+C138", "U+C18C", "U+C2A4", "U+C2B5", "U+C2E0",
     "U+C548", "U+C5B4", "U+C5B8", "U+C5BC", "U+C5C7", "U+C624", "U+C640", "U+C65C", "U+C694", "U+C6C0",
     "U+C774", "U+C778", "U+C785", "U+C790", "U+C815", "U+C81C", "U+C8FC", "U+C9C0", "U+CD5C", "U+D130",
     "U+D1B5", "U+D558", "U+D569", "U+D638", "U+D788", "U+D7A3", "U+1F916"}

\* The regex class \w (str.isalnum() or "_") over the alphabet.
NonWordChars == {" ", "!", "'", ",", "-", ".", "/", ":", "?", "[", "]", "U+1F916"}

WordChars == Alphabet \ NonWordChars

\* str.isspace(): the whitespace characters of the alphabet.
Whitespace == {" "}

\* str.lower() on one character: the upper-case characters of the alphabet.
LowerMap ==
    "A" :> "a" @@ "B" :> "b" @@ "C" :> "c" @@ "D" :> "d" @@ "E" :> "e" @@ "F" :> "f" @@ "G" :> "g" @@
    "H" :> "h" @@ "I" :> "i" @@ "J" :> "j" @@ "K" :> "k" @@ "L" :> "l" @@ "M" :> "m" @@ "N" :> "n" @@
    "O" :> "o" @@ "P" :> "p" @@ "Q" :> "q" @@ "R" :> "r" @@ "S" :> "s" @@ "T" :> "t" @@ "U" :> "u" @@
    "V" :> "v" @@ "W" :> "w" @@ "X" :> "x" @@ "Y" :> "y" @@ "Z" :> "z"

LowerChar(ch) == IF ch \in DOMAIN LowerMap THEN LowerMap[ch] ELSE ch

LANGUAGE_PATTERNS == <<
    [lang |-> "english",
     keywords |-> <<
            <<"h","e","l","l","o">>, <<"h","i">>, <<"w","h","a","t">>, <<"h","o","w">>, <<"w","h",
                "y">>,
            <<"w","h","e","n">>, <<"w","h","e","r","e">>, <<"w","h","o">>,
            <<"c","a","n"," ","y","o","u">>, <<"p","l","e","a","s","e">>,
            <<"t","h","a","n","k"," ","y","o","u">>, <<"a","n","a","l","y","z","e">>,
            <<"e","x","p","l","a","i","n">>>>,
     patterns |-> <<
        \* \bthe\b
        [anch |-> FALSE, wb |-> TRUE, ws |-> FALSE, alts |-> <<
            <<<<"t","h","e">>>>>>],
        \* \band\b
        [anch |-> FALSE, wb |-> TRUE, ws |-> FALSE, alts |-> <<
            <<<<"a","n","d">>>>>>],
        \* \bor\b
        [anch |-> FALSE, wb |-> TRUE, ws |-> FALSE, alts |-> <<
            <<<<"o","r">>>>>>],
        \* \bof\b
        [anch |-> FALSE, wb |-> TRUE, ws |-> FALSE, alts |-> <<
            <<<<"o","f">>>>>>],
        \* \bin\b
        [anch |-> FALSE, wb |-> TRUE, ws |-> FALSE, alts |-> <<
            <<<<"i","n">>>>>>],
        \* \bis\b
        [anch |-> FALSE, wb |-> TRUE, ws |-> FALSE, alts |-> <<
            <<<<"i","s">>>>>>],
        \* \bare\b
        [anch |-> FALSE, wb |-> TRUE, ws |-> FALSE, alts |-> <<
            <<<<"a","r","e">>>>>>]>>],
    [lang |-> "spanish",
     keywords |-> <<
            <<"h","o","l","a">>, <<"q","u","U+00E9">>, <<"c","U+00F3","m","o">>,
            <<"p","o","r"," ","q","u","U+00E9">>, <<"c","u","U+00E1","n","d","o">>,
            <<"d","U+00F3","n","d","e">>, <<"q","u","i","U+00E9","n">>, <<"p","u","e","d","e","s">>,
            <<"p","o","r"," ","f","a","v","o","r">>, <<"g","r","a","c","i","a","s">>>>,
     patterns |-> <<
        \* \bel\b
        [anch |-> FALSE, wb |-> TRUE, ws |-> FALSE, alts |-> <<
            <<<<"e","l">>>>>>],
        \* \bla\b
        [anch |-> FALSE, wb |-> TRUE, ws |-> FALSE, alts |-> <<
            <<<<"l","a">>>>>>],
        \* \by\b
        [anch |-> FALSE, wb |-> TRUE, ws |-> FALSE, alts |-> <<
            <<<<"y">>>>>>],
        \* \bde\b
        [anch |-> FALSE, wb |-> TRUE, ws |-> FALSE, alts |-> <<
            <<<<"d","e">>>>>>],
        \* \ben\b
        [anch |-> FALSE, wb |-> TRUE, ws |-> FALSE, alts |-> <<
            <<<<"e","n">>>>>>],
        \* \bes\b
        [anch |-> FALSE, wb |-> TRUE, ws |-> FALSE, alts |-> <<
            <<<<"e","s">>>>>>]>>],
    [lang |-> "french",
     keywords |-> <<
            <<"b","o","n","j","o","u","r">>, <<"q","u","'","e","s","t","-","c","e"," ","q","u",
                "e">>,
            <<"c","o","m","m","e","n","t">>, <<"p","o","u","r","q","u","o","i">>,
            <<"q","u","a","n","d">>, <<"o","U+00F9">>, <<"q","u","i">>,
            <<"p","o","u","v","e","z","-","v","o","u","s">>, <<"m","e","r","c","i">>>>,
     patterns |-> <<
        \* \ble\b
        [anch |-> FALSE, wb |-> TRUE, ws |-> FALSE, alts |-> <<
            <<<<"l","e">>>>>>],
        \* \bla\b
        [anch |-> FALSE, wb |-> TRUE, ws |-> FALSE, alts |-> <<
            <<<<"l","a">>>>>>],
        \* \bet\b
        [anch |-> FALSE, wb |-> TRUE, ws |-> FALSE, alts |-> <<
            <<<<"e","t">>>>>>],
        \* \bde\b
        [anch |-> FALSE, wb |-> TRUE, ws |-> FALSE, alts |-> <<
            <<<<"d","e">>>>>>],
        \* \best\b
        [anch |-> FALSE, wb |-> TRUE, ws |-> FALSE, alts |-> <<
            <<<<"e","s","t">>>>>>]>>],
    [lang |-> "german",
     keywords |-> <<
            <<"h","a","l","l","o">>, <<"w","a","s">>, <<"w","i","e">>, <<"w","a","r","u","m">>,
            <<"w","a","n","n">>, <<"w","o">>, <<"w","e","r">>,
            <<"k","U+00F6","n","n","e","n"," ","s","i","e">>, <<"d","a","n","k","e">>>>,
     patterns |-> <<
        \* \bder\b
        [anch |-> FALSE, wb |-> TRUE, ws |-> FALSE, alts |-> <<
            <<<<"d","e","r">>>>>>],
        \* \bdie\b
        [anch |-> FALSE, wb |-> TRUE, ws |-> FALSE, alts |-> <<
            <<<<"d","i","e">>>>>>],
        \* \bdas\b
        [anch |-> FALSE, wb |-> TRUE, ws |-> FALSE, alts |-> <<
            <<<<"d","a","s">>>>>>],
        \* \bund\b
        [anch |-> FALSE, wb |-> TRUE, ws |-> FALSE, alts |-> <<
            <<<<"u","n","d">>>>>>],
        \* \bist\b
        [anch |-> FALSE, wb |-> TRUE, ws |-> FALSE, alts |-> <<
            <<<<"i","s","t">>>>>>]>>],
    [lang |-> "japanese",
     keywords |-> <<
            <<"U+3053","U+3093","U+306B","U+3061","U+306F">>,
            <<"U+3042","U+308A","U+304C","U+3068","U+3046">>, <<"U+306A","U+306B">>,
            <<"U+3069","U+3046">>, <<"U+306A","U+305C">>, <<"U+3044","U+3064">>, <<"U+3069",
                "U+3053">>>>,
     patterns |-> <<
        \* [U+3072 U+3089 U+304C U+306A ]
        [anch |-> FALSE, wb |-> FALSE, ws |-> FALSE, alts |-> <<
            <<<<"U+3072">>>>, <<<<"U+3089">>>>, <<<<"U+304C">>>>, <<<<"U+306A">>>>>>],
        \* [U+30AB U+30BF U+30AB U+30CA ]
        [anch |-> FALSE, wb |-> FALSE, ws |-> FALSE, alts |-> <<
            <<<<"U+30AB">>>>, <<<<"U+30BF">>>>, <<<<"U+30AB">>>>, <<<<"U+30CA">>>>>>],
        \* U+3067 U+3059 
        [anch |-> FALSE, wb |-> FALSE, ws |-> FALSE, alts |-> <<
            <<<<"U+3067","U+3059">>>>>>],
        \* U+307E U+3059 
        [anch |-> FALSE, wb |-> FALSE, ws |-> FALSE, alts |-> <<
            <<<<"U+307E","U+3059">>>>>>]>>],
    [lang |-> "korean",
     keywords |-> <<
            <<"U+C548","U+B155","U+D558","U+C138","U+C694">>,
            <<"U+AC10","U+C0AC","U+D569","U+B2C8","U+B2E4">>, <<"U+BB34","U+C5C7">>,
            <<"U+C5B4","U+B5BB","U+AC8C">>, <<"U+C65C">>, <<"U+C5B8","U+C81C">>,
            <<"U+C5B4","U+B514","U+C11C">>>>,
     patterns |-> <<
        \* [U+AC00 -U+D7A3 ]
        [anch |-> FALSE, wb |-> FALSE, ws |-> FALSE, alts |-> <<
            <<<<"U+AC00">>>>, <<<<"U+AC10">>>>, <<<<"U+AC74">>>>, <<<<"U+AC8C">>>>, <<<<"U+ACA9">>>>,
            <<<<"U+ACBC">>>>, <<<<"U+ACC4">>>>, <<<<"U+AD6C">>>>, <<<<"U+AE08">>>>, <<<<"U+AE4C">>>>,
            <<<<"U+B098">>>>, <<<<"U+B155">>>>, <<<<"U+B204">>>>, <<<<"U+B274">>>>, <<<<"U+B298">>>>,
            <<<<"U+B2C8">>>>, <<<<"U+B2E4">>>>, <<<<"U+B370">>>>, <<<<"U+B3C4">>>>, <<<<"U+B4DC">>>>,
            <<<<"U+B514">>>>, <<<<"U+B5BB">>>>, <<<<"U+B9AC">>>>, <<<<"U+B9C8">>>>, <<<<"U+B9D0">>>>,
            <<<<"U+BA85">>>>, <<<<"U+BB34">>>>, <<<<"U+BC88">>>>, <<<<"U+BD84">>>>, <<<<"U+BE68">>>>,
            <<<<"U+C0AC">>>>, <<<<"U+C11C">>>>, <<<<"U+C11D">>>>, <<<<"U+C124">>>>, <<<<"U+C138">>>>,
            <<<<"U+C18C">>>>, <<<<"U+C2A4">>>>, <<<<"U+C2B5">>>>, <<<<"U+C2E0">>>>, <<<<"U+C548">>>>,
            <<<<"U+C5B4">>>>, <<<<"U+C5B8">>>>, <<<<"U+C5BC">>>>, <<<<"U+C5C7">>>>, <<<<"U+C624">>>>,
            <<<<"U+C640">>>>, <<<<"U+C65C">>>>, <<<<"U+C694">>>>, <<<<"U+C6C0">>>>, <<<<"U+C774">>>>,
            <<<<"U+C778">>>>, <<<<"U+C785">>>>, <<<<"U+C790">>>>, <<<<"U+C815">>>>, <<<<"U+C81C">>>>,
            <<<<"U+C8FC">>>>, <<<<"U+C9C0">>>>, <<<<"U+CD5C">>>>, <<<<"U+D130">>>>, <<<<"U+D1B5">>>>,
            <<<<"U+D558">>>>, <<<<"U+D569">>>>, <<<<"U+D638">>>>, <<<<"U+D788">>>>, <<<<"U+D7A3">>>>>>],
        \* U+C785 U+B2C8 U+B2E4 
        [anch |-> FALSE, wb |-> FALSE, ws |-> FALSE, alts |-> <<
            <<<<"U+C785","U+B2C8","U+B2E4">>>>>>],
        \* U+C2B5 U+B2C8 U+B2E4 
        [anch |-> FALSE, wb |-> FALSE, ws |-> FALSE, alts |-> <<
            <<<<"U+C2B5","U+B2C8","U+B2E4">>>>>>]>>],
    [lang |-> "chinese",
     keywords |-> <<
            <<"U+4F60","U+597D">>, <<"U+8C22","U+8C22">>, <<"U+4EC0","U+4E48">>, <<"U+600E",
                "U+4E48">>,
            <<"U+4E3A","U+4EC0","U+4E48">>, <<"U+4EC0","U+4E48","U+65F6","U+5019">>,
            <<"U+54EA","U+91CC">>>>,
     patterns |-> <<
        \* [U+4E00 -U+9FAF ]
        [anch |-> FALSE, wb |-> FALSE, ws |-> FALSE, alts |-> <<
            <<<<"U+4E00">>>>, <<<<"U+4E0A">>>>, <<<<"U+4E3A">>>>, <<<<"U+4E48">>>>, <<<<"U+4E86">>>>,
            <<<<"U+4E8B">>>>, <<<<"U+4EBA">>>>, <<<<"U+4EC0">>>>, <<<<"U+4ECA">>>>, <<<<"U+4EF6">>>>,
            <<<<"U+4EF7">>>>, <<<<"U+4F4F">>>>, <<<<"U+4F55">>>>, <<<<"U+4F60">>>>, <<<<"U+4FA1">>>>,
            <<<<"U+5019">>>>, <<<<"U+5206">>>>, <<<<"U+52A9">>>>, <<<<"U+52DD">>>>, <<<<"U+5357">>>>,
            <<<<"U+53E3">>>>, <<<<"U+53F7">>>>, <<<<"U+54EA">>>>, <<<<"U+5728">>>>, <<<<"U+5730">>>>,
            <<<<"U+5740">>>>, <<<<"U+591A">>>>, <<<<"U+5929">>>>, <<<<"U+597D">>>>, <<<<"U+5B9A">>>>,
            <<<<"U+5C11">>>>, <<<<"U+5E2E">>>>, <<<<"U+5FEB">>>>, <<<<"U+600E">>>>, <<<<"U+6240">>>>,
            <<<<"U+6307">>>>, <<<<"U+636E">>>>, <<<<"U+6570">>>>, <<<<"U+65B0">>>>, <<<<"U+65E5">>>>,
            <<<<"U+65E9">>>>, <<<<"U+65F6">>>>, <<<<"U+660E">>>>, <<<<"U+662F">>>>, <<<<"U+6700">>>>,
            <<<<"U+6790">>>>, <<<<"U+683C">>>>, <<<<"U+73B0">>>>, <<<<"U+756A">>>>, <<<<"U+7684">>>>,
            <<<<"U+771F">>>>, <<<<"U+7801">>>>, <<<<"U+7D30">>>>, <<<<"U+7D71">>>>, <<<<"U+7EC6">>>>,
            <<<<"U+7EDF">>>>, <<<<"U+7F6E">>>>, <<<<"U+89E3">>>>, <<<<"U+8A08">>>>, <<<<"U+8A2D">>>>,
            <<<<"U+8A73">>>>, <<<<"U+8AAC">>>>, <<<<"U+8AB0">>>>, <<<<"U+8BA1">>>>, <<<<"U+8BBE">>>>,
            <<<<"U+8BE6">>>>, <<<<"U+8C01">>>>, <<<<"U+8C22">>>>, <<<<"U+8D62">>>>, <<<<"U+8FD1">>>>,
            <<<<"U+91CA">>>>, <<<<"U+91CC">>>>, <<<<"U+95FB">>>>, <<<<"U+9FAF">>>>>>],
        \* U+7684 
        [anch |-> FALSE, wb |-> FALSE, ws |-> FALSE, alts |-> <<
            <<<<"U+7684">>>>>>],
        \* U+4E86 
        [anch |-> FALSE, wb |-> FALSE, ws |-> FALSE, alts |-> <<
            <<<<"U+4E86">>>>>>],
        \* U+662F 
        [anch |-> FALSE, wb |-> FALSE, ws |-> FALSE, alts |-> <<
            <<<<"U+662F">>>>>>]>>],
    [lang |-> "arabic",
     keywords |-> <<
            <<"U+0645","U+0631","U+062D","U+0628","U+0627">>, <<"U+0634","U+0643","U+0631",
                "U+0627">>,
            <<"U+0645","U+0627","U+0630","U+0627">>, <<"U+0643","U+064A","U+0641">>,
            <<"U+0644","U+0645","U+0627","U+0630","U+0627">>, <<"U+0645","U+062A","U+0649">>,
            <<"U+0623","U+064A","U+0646">>>>,
     patterns |-> <<
        \* [U+0627 -U+064A ]
        [anch |-> FALSE, wb |-> FALSE, ws |-> FALSE, alts |-> <<
            <<<<"U+0627">>>>, <<<<"U+0628">>>>, <<<<"U+0629">>>>, <<<<"U+062A">>>>, <<<<"U+062B">>>>,
            <<<<"U+062D">>>>, <<<<"U+062E">>>>, <<<<"U+062F">>>>, <<<<"U+0630">>>>, <<<<"U+0631">>>>,
            <<<<"U+0632">>>>, <<<<"U+0633">>>>, <<<<"U+0634">>>>, <<<<"U+0635">>>>, <<<<"U+0639">>>>,
            <<<<"U+0641">>>>, <<<<"U+0642">>>>, <<<<"U+0643">>>>, <<<<"U+0644">>>>, <<<<"U+0645">>>>,
            <<<<"U+0646">>>>, <<<<"U+0647">>>>, <<<<"U+0648">>>>, <<<<"U+0649">>>>, <<<<"U+064A">>>>>>],
        \* U+0641 U+064A 
        [anch |-> FALSE, wb |-> FALSE, ws |-> FALSE, alts |-> <<
            <<<<"U+0641","U+064A">>>>>>],
        \* U+0645 U+0646 
        [anch |-> FALSE, wb |-> FALSE, ws |-> FALSE, alts |-> <<
            <<<<"U+0645","U+0646">>>>>>]>>],
    [lang |-> "indonesian",
     keywords |-> <<
            <<"h","a","l","o">>, <<"a","p","a">>, <<"b","a","g","a","i","m","a","n","a">>,
            <<"m","e","n","g","a","p","a">>, <<"k","a","p","a","n">>, <<"d","i","m","a","n","a">>,
            <<"s","i","a","p","a">>, <<"t","o","l","o","n","g">>,
            <<"t","e","r","i","m","a"," ","k","a","s","i","h">>>>,
     patterns |-> <<
        \* \byang\b
        [anch |-> FALSE, wb |-> TRUE, ws |-> FALSE, alts |-> <<
            <<<<"y","a","n","g">>>>>>],
        \* \bdan\b
        [anch |-> FALSE, wb |-> TRUE, ws |-> FALSE, alts |-> <<
            <<<<"d","a","n">>>>>>],
        \* \bdi\b
        [anch |-> FALSE, wb |-> TRUE, ws |-> FALSE, alts |-> <<
            <<<<"d","i">>>>>>],
        \* \badalah\b
        [anch |-> FALSE, wb |-> TRUE, ws |-> FALSE, alts |-> <<
            <<<<"a","d","a","l","a","h">>>>>>]>>]>>

intent_patterns == <<
    [intent |-> "detailed_explanation", weight |-> 2,
     patterns |-> <<
        \* (jelaskan|explain|expliquer|erklU+00E4 ren|U+8AAC U+660E |U+C124 U+BA85 |U+89E3 U+91CA |U+0627 U+0634 U+0631 U+062D )
        [anch |-> FALSE, wb |-> FALSE, ws |-> FALSE, alts |-> <<
            <<<<"j","e","l","a","s","k","a","n">>>>, <<<<"e","x","p","l","a","i","n">>>>,
            <<<<"e","x","p","l","i","q","u","e","r">>>>, <<<<"e","r","k","l","U+00E4","r","e",
                "n">>>>,
            <<<<"U+8AAC","U+660E">>>>, <<<<"U+C124","U+BA85">>>>, <<<<"U+89E3","U+91CA">>>>,
            <<<<"U+0627","U+0634","U+0631","U+062D">>>>>>],
        \* (bagaimana|how|comment|wie|U+3069 U+3046 U+3084 U+3063 U+3066 |U+C5B4 U+B5BB U+AC8C |U+600E U+4E48 |U+0643 U+064A U+0641 )
        [anch |-> FALSE, wb |-> FALSE, ws |-> FALSE, alts |-> <<
            <<<<"b","a","g","a","i","m","a","n","a">>>>, <<<<"h","o","w">>>>,
            <<<<"c","o","m","m","e","n","t">>>>, <<<<"w","i","e">>>>,
            <<<<"U+3069","U+3046","U+3084","U+3063","U+3066">>>>, <<<<"U+C5B4","U+B5BB",
                "U+AC8C">>>>,
            <<<<"U+600E","U+4E48">>>>, <<<<"U+0643","U+064A","U+0641">>>>>>],
        \* (mengapa|why|pourquoi|warum|U+306A U+305C |U+C65C |U+4E3A U+4EC0 U+4E48 |U+0644 U+0645 U+0627 U+0630 U+0627 )
        [anch |-> FALSE, wb |-> FALSE, ws |-> FALSE, alts |-> <<
            <<<<"m","e","n","g","a","p","a">>>>, <<<<"w","h","y">>>>, <<<<"p","o","u","r","q","u",
                "o","i">>>>,
            <<<<"w","a","r","u","m">>>>, <<<<"U+306A","U+305C">>>>, <<<<"U+C65C">>>>,
            <<<<"U+4E3A","U+4EC0","U+4E48">>>>, <<<<"U+0644","U+0645","U+0627","U+0630",
                "U+0627">>>>>>],
        \* (analisa|analyze|analyser|analysieren|U+5206 U+6790 |U+BD84 U+C11D |U+062A U+062D U+0644 U+064A U+0644 )
        [anch |-> FALSE, wb |-> FALSE, ws |-> FALSE, alts |-> <<
            <<<<"a","n","a","l","i","s","a">>>>, <<<<"a","n","a","l","y","z","e">>>>,
            <<<<"a","n","a","l","y","s","e","r">>>>, <<<<"a","n","a","l","y","s","i","e","r","e",
                "n">>>>,
            <<<<"U+5206","U+6790">>>>, <<<<"U+BD84","U+C11D">>>>,
            <<<<"U+062A","U+062D","U+0644","U+064A","U+0644">>>>>>],
        \* (detail|detailed|dU+00E9 taillU+00E9 |detailliert|U+8A73 U+7D30 |U+C790 U+C138 U+D788 |U+8BE6 U+7EC6 |U+062A U+0641 U+0635 U+064A U+0644 U+064A )
        [anch |-> FALSE, wb |-> FALSE, ws |-> FALSE, alts |-> <<
            <<<<"d","e","t","a","i","l">>>>, <<<<"d","e","t","a","i","l","e","d">>>>,
            <<<<"d","U+00E9","t","a","i","l","l","U+00E9">>>>,
            <<<<"d","e","t","a","i","l","l","i","e","r","t">>>>, <<<<"U+8A73","U+7D30">>>>,
            <<<<"U+C790","U+C138","U+D788">>>>, <<<<"U+8BE6","U+7EC6">>>>,
            <<<<"U+062A","U+0641","U+0635","U+064A","U+0644","U+064A">>>>>>],
        \* (tutorial|guide|panduan|anleitung|U+30AC U+30A4 U+30C9 |U+AC00 U+C774 U+B4DC |U+6307 U+5357 |U+062F U+0644 U+064A U+0644 )
        [anch |-> FALSE, wb |-> FALSE, ws |-> FALSE, alts |-> <<
            <<<<"t","u","t","o","r","i","a","l">>>>, <<<<"g","u","i","d","e">>>>,
            <<<<"p","a","n","d","u","a","n">>>>, <<<<"a","n","l","e","i","t","u","n","g">>>>,
            <<<<"U+30AC","U+30A4","U+30C9">>>>, <<<<"U+AC00","U+C774","U+B4DC">>>>, <<<<"U+6307",
                "U+5357">>>>,
            <<<<"U+062F","U+0644","U+064A","U+0644">>>>>>]>>],
    [intent |-> "simple_question", weight |-> 3,
     patterns |-> <<
        \* ^(apa|what|qu\'?est|was|U+4F55 |U+BB34 U+C5C7 |U+4EC0 U+4E48 |U+0645 U+0627 )\s
        [anch |-> TRUE, wb |-> FALSE, ws |-> TRUE, alts |-> <<
            <<<<"a","p","a">>>>, <<<<"w","h","a","t">>>>, <<<<"q","u","'","e","s","t">>>>,
            <<<<"q","u","e","s","t">>>>, <<<<"w","a","s">>>>, <<<<"U+4F55">>>>, <<<<"U+BB34",
                "U+C5C7">>>>,
            <<<<"U+4EC0","U+4E48">>>>, <<<<"U+0645","U+0627">>>>>>],
        \* ^(siapa|who|qui|wer|U+8AB0 |U+B204 U+AD6C |U+8C01 |U+0645 U+0646 )\s
        [anch |-> TRUE, wb |-> FALSE, ws |-> TRUE, alts |-> <<
            <<<<"s","i","a","p","a">>>>, <<<<"w","h","o">>>>, <<<<"q","u","i">>>>, <<<<"w","e",
                "r">>>>,
            <<<<"U+8AB0">>>>, <<<<"U+B204","U+AD6C">>>>, <<<<"U+8C01">>>>, <<<<"U+0645",
                "U+0646">>>>>>],
        \* ^(kapan|when|quand|wann|U+3044 U+3064 |U+C5B8 U+C81C |U+4EC0 U+4E48 U+65F6 U+5019 |U+0645 U+062A U+0649 )\s
        [anch |-> TRUE, wb |-> FALSE, ws |-> TRUE, alts |-> <<
            <<<<"k","a","p","a","n">>>>, <<<<"w","h","e","n">>>>, <<<<"q","u","a","n","d">>>>,
            <<<<"w","a","n","n">>>>, <<<<"U+3044","U+3064">>>>, <<<<"U+C5B8","U+C81C">>>>,
            <<<<"U+4EC0","U+4E48","U+65F6","U+5019">>>>, <<<<"U+0645","U+062A","U+0649">>>>>>],
        \* ^(dimana|where|oU+00F9 |wo|U+3069 U+3053 |U+C5B4 U+B514 |U+54EA U+91CC |U+0623 U+064A U+0646 )\s
        [anch |-> TRUE, wb |-> FALSE, ws |-> TRUE, alts |-> <<
            <<<<"d","i","m","a","n","a">>>>, <<<<"w","h","e","r","e">>>>, <<<<"o","U+00F9">>>>,
            <<<<"w","o">>>>, <<<<"U+3069","U+3053">>>>, <<<<"U+C5B4","U+B514">>>>, <<<<"U+54EA",
                "U+91CC">>>>,
            <<<<"U+0623","U+064A","U+0646">>>>>>],
        \* ^(apakah|is|est|ist|U+3067 U+3059 U+304B |U+C785 U+B2C8 U+AE4C |U+662F |U+0647 U+0644 )
        [anch |-> TRUE, wb |-> FALSE, ws |-> FALSE, alts |-> <<
            <<<<"a","p","a","k","a","h">>>>, <<<<"i","s">>>>, <<<<"e","s","t">>>>, <<<<"i","s",
                "t">>>>,
            <<<<"U+3067","U+3059","U+304B">>>>, <<<<"U+C785","U+B2C8",
                "U+AE4C">>>>, <<<<"U+662F">>>>,
            <<<<"U+0647","U+0644">>>>>>],
        \* (ya\?|no\?|yes\?|benar\?|true\?|U+C815 U+B9D0 \?|U+771F U+7684 \?|U+0635 U+062D U+064A U+062D \?)
        [anch |-> FALSE, wb |-> FALSE, ws |-> FALSE, alts |-> <<
            <<<<"y","a","?">>>>, <<<<"n","o","?">>>>, <<<<"y","e","s","?">>>>, <<<<"b","e","n","a",
                "r","?">>>>,
            <<<<"t","r","u","e","?">>>>, <<<<"U+C815","U+B9D0","?">>>>, <<<<"U+771F","U+7684",
                "?">>>>,
            <<<<"U+0635","U+062D","U+064A","U+062D","?">>>>>>]>>],
    [intent |-> "urgent_help", weight |-> 2,
     patterns |-> <<
        \* (urgent|mendesak|tolong|help|aide|hilfe|U+52A9 U+3051 U+3066 |U+B3C4 U+C640 U+C8FC U+C138 U+C694 |U+5E2E U+52A9 |U+0645 U+0633 U+0627 U+0639 U+062F U+0629 )
        [anch |-> FALSE, wb |-> FALSE, ws |-> FALSE, alts |-> <<
            <<<<"u","r","g","e","n","t">>>>, <<<<"m","e","n","d","e","s","a","k">>>>,
            <<<<"t","o","l","o","n","g">>>>, <<<<"h","e","l","p">>>>, <<<<"a","i","d","e">>>>,
            <<<<"h","i","l","f","e">>>>, <<<<"U+52A9","U+3051","U+3066">>>>,
            <<<<"U+B3C4","U+C640","U+C8FC","U+C138","U+C694">>>>, <<<<"U+5E2E","U+52A9">>>>,
            <<<<"U+0645","U+0633","U+0627","U+0639","U+062F","U+0629">>>>>>],
        \* (cepat|quick|vite|schnell|U+65E9 U+304F |U+BE68 U+B9AC |U+5FEB |U+0628 U+0633 U+0631 U+0639 U+0629 )
        [anch |-> FALSE, wb |-> FALSE, ws |-> FALSE, alts |-> <<
            <<<<"c","e","p","a","t">>>>, <<<<"q","u","i","c","k">>>>, <<<<"v","i","t","e">>>>,
            <<<<"s","c","h","n","e","l","l">>>>, <<<<"U+65E9","U+304F">>>>, <<<<"U+BE68",
                "U+B9AC">>>>,
            <<<<"U+5FEB">>>>, <<<<"U+0628","U+0633","U+0631","U+0639","U+0629">>>>>>]>>],
    [intent |-> "greeting", weight |-> 1,
     patterns |-> <<
        \* ^(hai|halo|hello|hi|salut|hallo|U+3053 U+3093 U+306B U+3061 U+306F |U+C548 U+B155 |U+4F60 U+597D |U+0645 U+0631 U+062D U+0628 U+0627 )
        [anch |-> TRUE, wb |-> FALSE, ws |-> FALSE, alts |-> <<
            <<<<"h","a","i">>>>, <<<<"h","a","l","o">>>>, <<<<"h","e","l","l","o">>>>, <<<<"h",
                "i">>>>,
            <<<<"s","a","l","u","t">>>>, <<<<"h","a","l","l","o">>>>,
            <<<<"U+3053","U+3093","U+306B","U+3061","U+306F">>>>, <<<<"U+C548","U+B155">>>>,
            <<<<"U+4F60","U+597D">>>>, <<<<"U+0645","U+0631","U+062D","U+0628","U+0627">>>>>>],
        \* (selamat|good|bon|guten|U+304A U+306F U+3088 U+3046 |U+C548 U+B155 U+D558 U+C138 U+C694 |U+65E9 U+4E0A U+597D |U+0635 U+0628 U+0627 U+062D  U+0627 U+0644 U+062E U+064A U+0631 )
        [anch |-> FALSE, wb |-> FALSE, ws |-> FALSE, alts |-> <<
            <<<<"s","e","l","a","m","a","t">>>>, <<<<"g","o","o","d">>>>, <<<<"b","o","n">>>>,
            <<<<"g","u","t","e","n">>>>, <<<<"U+304A","U+306F","U+3088","U+3046">>>>,
            <<<<"U+C548","U+B155","U+D558","U+C138","U+C694">>>>, <<<<"U+65E9","U+4E0A",
                "U+597D">>>>,
            <<<<"U+0635","U+0628","U+0627","U+062D"," ","U+0627","U+0644","U+062E","U+064A",
                "U+0631">>>>>>]>>],
    [intent |-> "current_events", weight |-> 3,
     patterns |-> <<
        \* (terbaru|latest|recent|atual|rU+00E9 cent|aktuell|U+6700 U+65B0 |U+CD5C U+C2E0 |U+6700 U+8FD1 |U+0623 U+062D U+062F U+062B )
        [anch |-> FALSE, wb |-> FALSE, ws |-> FALSE, alts |-> <<
            <<<<"t","e","r","b","a","r","u">>>>, <<<<"l","a","t","e","s","t">>>>,
            <<<<"r","e","c","e","n","t">>>>, <<<<"a","t","u","a","l">>>>, <<<<"r","U+00E9","c","e",
                "n","t">>>>,
            <<<<"a","k","t","u","e","l","l">>>>, <<<<"U+6700","U+65B0">>>>, <<<<"U+CD5C",
                "U+C2E0">>>>,
            <<<<"U+6700","U+8FD1">>>>, <<<<"U+0623","U+062D","U+062F","U+062B">>>>>>],
        \* (sekarang|now|maintenant|jetzt|U+4ECA |U+C9C0 U+AE08 |U+73B0 U+5728 |U+0627 U+0644 U+0622 U+0646 )
        [anch |-> FALSE, wb |-> FALSE, ws |-> FALSE, alts |-> <<
            <<<<"s","e","k","a","r","a","n","g">>>>, <<<<"n","o","w">>>>,
            <<<<"m","a","i","n","t","e","n","a","n","t">>>>, <<<<"j","e","t","z",
                "t">>>>, <<<<"U+4ECA">>>>,
            <<<<"U+C9C0","U+AE08">>>>, <<<<"U+73B0","U+5728">>>>, <<<<"U+0627","U+0644","U+0622",
                "U+0646">>>>>>],
        \* (hari ini|today|aujourd\'hui|heute|U+4ECA U+65E5 |U+C624 U+B298 |U+4ECA U+5929 |U+0627 U+0644 U+064A U+0648 U+0645 )
        [anch |-> FALSE, wb |-> FALSE, ws |-> FALSE, alts |-> <<
            <<<<"h","a","r","i"," ","i","n","i">>>>, <<<<"t","o","d","a","y">>>>,
            <<<<"a","u","j","o","u","r","d","'","h","u","i">>>>, <<<<"h","e","u","t","e">>>>,
            <<<<"U+4ECA","U+65E5">>>>, <<<<"U+C624","U+B298">>>>, <<<<"U+4ECA","U+5929">>>>,
            <<<<"U+0627","U+0644","U+064A","U+0648","U+0645">>>>>>],
        \* (berita|news|nouvelles|nachrichten|U+30CB U+30E5 U+30FC U+30B9 |U+B274 U+C2A4 |U+65B0 U+95FB |U+0623 U+062E U+0628 U+0627 U+0631 )
        [anch |-> FALSE, wb |-> FALSE, ws |-> FALSE, alts |-> <<
            <<<<"b","e","r","i","t","a">>>>, <<<<"n","e","w","s">>>>,
            <<<<"n","o","u","v","e","l","l","e","s">>>>, <<<<"n","a","c","h","r","i","c","h","t",
                "e","n">>>>,
            <<<<"U+30CB","U+30E5","U+30FC","U+30B9">>>>, <<<<"U+B274","U+C2A4">>>>, <<<<"U+65B0",
                "U+95FB">>>>,
            <<<<"U+0623","U+062E","U+0628","U+0627","U+0631">>>>>>],
        \* (kejadian|events|U+00E9 vU+00E9 nements|ereignisse|U+30A4 U+30D9 U+30F3 U+30C8 |U+C0AC U+AC74 |U+4E8B U+4EF6 |U+0623 U+062D U+062F U+0627 U+062B )
        [anch |-> FALSE, wb |-> FALSE, ws |-> FALSE, alts |-> <<
            <<<<"k","e","j","a","d","i","a","n">>>>, <<<<"e","v","e","n","t","s">>>>,
            <<<<"U+00E9","v","U+00E9","n","e","m","e","n","t","s">>>>,
            <<<<"e","r","e","i","g","n","i","s","s","e">>>>, <<<<"U+30A4","U+30D9","U+30F3",
                "U+30C8">>>>,
            <<<<"U+C0AC","U+AC74">>>>, <<<<"U+4E8B","U+4EF6">>>>,
            <<<<"U+0623","U+062D","U+062F","U+0627","U+062B">>>>>>],
        \* (siapa yang menang|who won|qui a gagnU+00E9 |wer hat gewonnen|U+8AB0 U+304C U+52DD U+3063 U+305F |U+B204 U+AC00  U+C774 U+ACBC U+B098 |U+8C01 U+8D62 U+4E86 |U+0645 U+0646  U+0641 U+0627 U+0632 )
        [anch |-> FALSE, wb |-> FALSE, ws |-> FALSE, alts |-> <<
            <<<<"s","i","a","p","a"," ","y","a","n","g"," ","m","e","n","a","n","g">>>>,
            <<<<"w","h","o"," ","w","o","n">>>>, <<<<"q","u","i"," ","a"," ","g","a","g","n",
                "U+00E9">>>>,
            <<<<"w","e","r"," ","h","a","t"," ","g","e","w","o","n","n","e","n">>>>,
            <<<<"U+8AB0","U+304C","U+52DD","U+3063","U+305F">>>>,
            <<<<"U+B204","U+AC00"," ","U+C774","U+ACBC","U+B098">>>>, <<<<"U+8C01","U+8D62",
                "U+4E86">>>>,
            <<<<"U+0645","U+0646"," ","U+0641","U+0627","U+0632">>>>>>],
        \* (kapan|when|quand|wann|U+3044 U+3064 |U+C5B8 U+C81C |U+4EC0 U+4E48 U+65F6 U+5019 |U+0645 U+062A U+0649 ).*2024
        [anch |-> FALSE, wb |-> FALSE, ws |-> FALSE, alts |-> <<
            <<<<"k","a","p","a","n">>, <<"2","0","2","4">>>>, <<<<"w","h","e","n">>, <<"2","0","2",
                "4">>>>,
            <<<<"q","u","a","n","d">>, <<"2","0","2","4">>>>, <<<<"w","a","n","n">>, <<"2","0","2",
                "4">>>>,
            <<<<"U+3044","U+3064">>, <<"2","0","2","4">>>>, <<<<"U+C5B8","U+C81C">>, <<"2","0","2",
                "4">>>>,
            <<<<"U+4EC0","U+4E48","U+65F6","U+5019">>, <<"2","0","2","4">>>>,
            <<<<"U+0645","U+062A","U+0649">>, <<"2","0","2","4">>>>>>],
        \* (euro 2024|olympics|world cup|election|pemilu)
        [anch |-> FALSE, wb |-> FALSE, ws |-> FALSE, alts |-> <<
            <<<<"e","u","r","o"," ","2","0","2","4">>>>, <<<<"o","l","y","m","p","i","c","s">>>>,
            <<<<"w","o","r","l","d"," ","c","u","p">>>>, <<<<"e","l","e","c","t","i","o","n">>>>,
            <<<<"p","e","m","i","l","u">>>>>>]>>],
    [intent |-> "factual_query", weight |-> 2,
     patterns |-> <<
        \* (berapa|how much|how many|combien|wie viel|U+3044 U+304F U+3089 |U+C5BC U+B9C8 |U+591A U+5C11 |U+0643 U+0645 )
        [anch |-> FALSE, wb |-> FALSE, ws |-> FALSE, alts |-> <<
            <<<<"b","e","r","a","p","a">>>>, <<<<"h","o","w"," ","m","u","c","h">>>>,
            <<<<"h","o","w"," ","m","a","n","y">>>>, <<<<"c","o","m","b","i","e","n">>>>,
            <<<<"w","i","e"," ","v","i","e","l">>>>, <<<<"U+3044","U+304F","U+3089">>>>,
            <<<<"U+C5BC","U+B9C8">>>>, <<<<"U+591A","U+5C11">>>>, <<<<"U+0643","U+0645">>>>>>],
        \* (dimana|where|oU+00F9 |wo|U+3069 U+3053 |U+C5B4 U+B514 |U+54EA U+91CC |U+0623 U+064A U+0646 )
        [anch |-> FALSE, wb |-> FALSE, ws |-> FALSE, alts |-> <<
            <<<<"d","i","m","a","n","a">>>>, <<<<"w","h","e","r","e">>>>, <<<<"o","U+00F9">>>>,
            <<<<"w","o">>>>, <<<<"U+3069","U+3053">>>>, <<<<"U+C5B4","U+B514">>>>, <<<<"U+54EA",
                "U+91CC">>>>,
            <<<<"U+0623","U+064A","U+0646">>>>>>],
        \* (statistik|statistics|statistiques|statistiken|U+7D71 U+8A08 |U+D1B5 U+ACC4 |U+7EDF U+8BA1 |U+0625 U+062D U+0635 U+0627 U+0626 U+064A U+0627 U+062A )
        [anch |-> FALSE, wb |-> FALSE, ws |-> FALSE, alts |-> <<
            <<<<"s","t","a","t","i","s","t","i","k">>>>, <<<<"s","t","a","t","i","s","t","i","c",
                "s">>>>,
            <<<<"s","t","a","t","i","s","t","i","q","u","e","s">>>>,
            <<<<"s","t","a","t","i","s","t","i","k","e","n">>>>, <<<<"U+7D71","U+8A08">>>>,
            <<<<"U+D1B5","U+ACC4">>>>, <<<<"U+7EDF","U+8BA1">>>>,
            <<<<"U+0625","U+062D","U+0635","U+0627","U+0626","U+064A","U+0627","U+062A">>>>>>],
        \* (data|donnU+00E9 es|daten|U+30C7 U+30FC U+30BF |U+B370 U+C774 U+D130 |U+6570 U+636E |U+0628 U+064A U+0627 U+0646 U+0627 U+062A )
        [anch |-> FALSE, wb |-> FALSE, ws |-> FALSE, alts |-> <<
            <<<<"d","a","t","a">>>>, <<<<"d","o","n","n","U+00E9","e","s">>>>, <<<<"d","a","t","e",
                "n">>>>,
            <<<<"U+30C7","U+30FC","U+30BF">>>>, <<<<"U+B370","U+C774","U+D130">>>>, <<<<"U+6570",
                "U+636E">>>>,
            <<<<"U+0628","U+064A","U+0627","U+0646","U+0627","U+062A">>>>>>],
        \* (harga|price|prix|preis|U+4FA1 U+683C |U+AC00 U+ACA9 |U+4EF7 U+683C |U+0633 U+0639 U+0631 )
        [anch |-> FALSE, wb |-> FALSE, ws |-> FALSE, alts |-> <<
            <<<<"h","a","r","g","a">>>>, <<<<"p","r","i","c","e">>>>, <<<<"p","r","i","x">>>>,
            <<<<"p","r","e","i","s">>>>, <<<<"U+4FA1","U+683C">>>>, <<<<"U+AC00","U+ACA9">>>>,
            <<<<"U+4EF7","U+683C">>>>, <<<<"U+0633","U+0639","U+0631">>>>>>],
        \* (populasi|population|einwohner|U+4EBA U+53E3 |U+C778 U+AD6C |U+4EBA U+53E3 |U+0633 U+0643 U+0627 U+0646 )
        [anch |-> FALSE, wb |-> FALSE, ws |-> FALSE, alts |-> <<
            <<<<"p","o","p","u","l","a","s","i">>>>, <<<<"p","o","p","u","l","a","t","i","o",
                "n">>>>,
            <<<<"e","i","n","w","o","h","n","e","r">>>>, <<<<"U+4EBA","U+53E3">>>>, <<<<"U+C778",
                "U+AD6C">>>>,
            <<<<"U+4EBA","U+53E3">>>>, <<<<"U+0633","U+0643","U+0627","U+0646">>>>>>],
        \* (alamat|address|adresse|U+4F4F U+6240 |U+C8FC U+C18C |U+5730 U+5740 |U+0639 U+0646 U+0648 U+0627 U+0646 )
        [anch |-> FALSE, wb |-> FALSE, ws |-> FALSE, alts |-> <<
            <<<<"a","l","a","m","a","t">>>>, <<<<"a","d","d","r","e","s","s">>>>,
            <<<<"a","d","r","e","s","s","e">>>>, <<<<"U+4F4F","U+6240">>>>, <<<<"U+C8FC",
                "U+C18C">>>>,
            <<<<"U+5730","U+5740">>>>, <<<<"U+0639","U+0646","U+0648","U+0627","U+0646">>>>>>],
        \* (nomor|number|numU+00E9 ro|nummer|U+756A U+53F7 |U+BC88 U+D638 |U+53F7 U+7801 |U+0631 U+0642 U+0645 )
        [anch |-> FALSE, wb |-> FALSE, ws |-> FALSE, alts |-> <<
            <<<<"n","o","m","o","r">>>>, <<<<"n","u","m","b","e","r">>>>, <<<<"n","u","m","U+00E9",
                "r","o">>>>,
            <<<<"n","u","m","m","e","r">>>>, <<<<"U+756A","U+53F7">>>>, <<<<"U+BC88","U+D638">>>>,
            <<<<"U+53F7","U+7801">>>>, <<<<"U+0631","U+0642","U+0645">>>>>>]>>]>>

grounding_patterns == <<
    [priority |-> "high_priority", weight |-> 3,
     patterns |-> <<
        \* (terbaru|latest|recent|breaking|aktual)
        [anch |-> FALSE, wb |-> FALSE, ws |-> FALSE, alts |-> <<
            <<<<"t","e","r","b","a","r","u">>>>, <<<<"l","a","t","e","s","t">>>>,
            <<<<"r","e","c","e","n","t">>>>, <<<<"b","r","e","a","k","i","n","g">>>>,
            <<<<"a","k","t","u","a","l">>>>>>],
        \* (hari ini|today|sekarang|now|saat ini)
        [anch |-> FALSE, wb |-> FALSE, ws |-> FALSE, alts |-> <<
            <<<<"h","a","r","i"," ","i","n","i">>>>, <<<<"t","o","d","a","y">>>>,
            <<<<"s","e","k","a","r","a","n","g">>>>, <<<<"n","o","w">>>>,
            <<<<"s","a","a","t"," ","i","n","i">>>>>>],
        \* (berita|news|kejadian|events|peristiwa)
        [anch |-> FALSE, wb |-> FALSE, ws |-> FALSE, alts |-> <<
            <<<<"b","e","r","i","t","a">>>>, <<<<"n","e","w","s">>>>, <<<<"k","e","j","a","d","i",
                "a","n">>>>,
            <<<<"e","v","e","n","t","s">>>>, <<<<"p","e","r","i","s","t","i","w","a">>>>>>],
        \* (2024|2025|tahun ini|this year)
        [anch |-> FALSE, wb |-> FALSE, ws |-> FALSE, alts |-> <<
            <<<<"2","0","2","4">>>>, <<<<"2","0","2","5">>>>, <<<<"t","a","h","u","n"," ","i","n",
                "i">>>>,
            <<<<"t","h","i","s"," ","y","e","a","r">>>>>>],
        \* (kemarin|yesterday|minggu ini|this week)
        [anch |-> FALSE, wb |-> FALSE, ws |-> FALSE, alts |-> <<
            <<<<"k","e","m","a","r","i","n">>>>, <<<<"y","e","s","t","e","r","d","a","y">>>>,
            <<<<"m","i","n","g","g","u"," ","i","n","i">>>>, <<<<"t","h","i","s"," ","w","e","e",
                "k">>>>>>],
        \* (siapa yang|who is|who are|siapa sekarang)
        [anch |-> FALSE, wb |-> FALSE, ws |-> FALSE, alts |-> <<
            <<<<"s","i","a","p","a"," ","y","a","n","g">>>>, <<<<"w","h","o"," ","i","s">>>>,
            <<<<"w","h","o"," ","a","r","e">>>>,
            <<<<"s","i","a","p","a"," ","s","e","k","a","r","a","n","g">>>>>>],
        \* (apa yang terjadi|what happened|what\'s happening)
        [anch |-> FALSE, wb |-> FALSE, ws |-> FALSE, alts |-> <<
            <<<<"a","p","a"," ","y","a","n","g"," ","t","e","r","j","a","d","i">>>>,
            <<<<"w","h","a","t"," ","h","a","p","p","e","n","e","d">>>>,
            <<<<"w","h","a","t","'","s"," ","h","a","p","p","e","n","i","n","g">>>>>>],
        \* (dimana|where is|where are|lokasi)
        [anch |-> FALSE, wb |-> FALSE, ws |-> FALSE, alts |-> <<
            <<<<"d","i","m","a","n","a">>>>, <<<<"w","h","e","r","e"," ","i","s">>>>,
            <<<<"w","h","e","r","e"," ","a","r","e">>>>, <<<<"l","o","k","a","s","i">>>>>>],
        \* (kapan|when did|when will|jadwal)
        [anch |-> FALSE, wb |-> FALSE, ws |-> FALSE, alts |-> <<
            <<<<"k","a","p","a","n">>>>, <<<<"w","h","e","n"," ","d","i","d">>>>,
            <<<<"w","h","e","n"," ","w","i","l","l">>>>, <<<<"j","a","d","w","a","l">>>>>>],
        \* (berapa|how much|how many|price|harga)
        [anch |-> FALSE, wb |-> FALSE, ws |-> FALSE, alts |-> <<
            <<<<"b","e","r","a","p","a">>>>, <<<<"h","o","w"," ","m","u","c","h">>>>,
            <<<<"h","o","w"," ","m","a","n","y">>>>, <<<<"p","r","i","c","e">>>>, <<<<"h","a","r",
                "g","a">>>>>>],
        \* (statistik|data|facts|fakta|informasi)
        [anch |-> FALSE, wb |-> FALSE, ws |-> FALSE, alts |-> <<
            <<<<"s","t","a","t","i","s","t","i","k">>>>, <<<<"d","a","t","a">>>>, <<<<"f","a","c",
                "t","s">>>>,
            <<<<"f","a","k","t","a">>>>, <<<<"i","n","f","o","r","m","a","s","i">>>>>>],
        \* (populasi|population|jumlah penduduk)
        [anch |-> FALSE, wb |-> FALSE, ws |-> FALSE, alts |-> <<
            <<<<"p","o","p","u","l","a","s","i">>>>, <<<<"p","o","p","u","l","a","t","i","o",
                "n">>>>,
            <<<<"j","u","m","l","a","h"," ","p","e","n","d","u","d","u","k">>>>>>],
        \* (alamat|address|location|tempat)
        [anch |-> FALSE, wb |-> FALSE, ws |-> FALSE, alts |-> <<
            <<<<"a","l","a","m","a","t">>>>, <<<<"a","d","d","r","e","s","s">>>>,
            <<<<"l","o","c","a","t","i","o","n">>>>, <<<<"t","e","m","p","a","t">>>>>>],
        \* (weather|cuaca|temperature|suhu)
        [anch |-> FALSE, wb |-> FALSE, ws |-> FALSE, alts |-> <<
            <<<<"w","e","a","t","h","e","r">>>>, <<<<"c","u","a","c","a">>>>,
            <<<<"t","e","m","p","e","r","a","t","u","r","e">>>>, <<<<"s","u","h","u">>>>>>],
        \* (stock|saham|cryptocurrency|crypto)
        [anch |-> FALSE, wb |-> FALSE, ws |-> FALSE, alts |-> <<
            <<<<"s","t","o","c","k">>>>, <<<<"s","a","h","a","m">>>>,
            <<<<"c","r","y","p","t","o","c","u","r","r","e","n","c","y">>>>, <<<<"c","r","y","p",
                "t","o">>>>>>],
        \* (election|pemilu|politik|government)
        [anch |-> FALSE, wb |-> FALSE, ws |-> FALSE, alts |-> <<
            <<<<"e","l","e","c","t","i","o","n">>>>, <<<<"p","e","m","i","l","u">>>>,
            <<<<"p","o","l","i","t","i","k">>>>, <<<<"g","o","v","e","r","n","m","e","n","t">>>>>>],
        \* (sports|olahraga|match|pertandingan)
        [anch |-> FALSE, wb |-> FALSE, ws |-> FALSE, alts |-> <<
            <<<<"s","p","o","r","t","s">>>>, <<<<"o","l","a","h","r","a","g","a">>>>,
            <<<<"m","a","t","c","h">>>>, <<<<"p","e","r","t","a","n","d","i","n","g","a","n">>>>>>],
        \* (technology|teknologi|gadget|software)
        [anch |-> FALSE, wb |-> FALSE, ws |-> FALSE, alts |-> <<
            <<<<"t","e","c","h","n","o","l","o","g","y">>>>, <<<<"t","e","k","n","o","l","o","g",
                "i">>>>,
            <<<<"g","a","d","g","e","t">>>>, <<<<"s","o","f","t","w","a","r","e">>>>>>],
        \* (health|kesehatan|medical|medis)
        [anch |-> FALSE, wb |-> FALSE, ws |-> FALSE, alts |-> <<
            <<<<"h","e","a","l","t","h">>>>, <<<<"k","e","s","e","h","a","t","a","n">>>>,
            <<<<"m","e","d","i","c","a","l">>>>, <<<<"m","e","d","i","s">>>>>>],
        \* (ekonomi|economy|inflation|inflasi)
        [anch |-> FALSE, wb |-> FALSE, ws |-> FALSE, alts |-> <<
            <<<<"e","k","o","n","o","m","i">>>>, <<<<"e","c","o","n","o","m","y">>>>,
            <<<<"i","n","f","l","a","t","i","o","n">>>>, <<<<"i","n","f","l","a","s","i">>>>>>]>>],
    [priority |-> "medium_priority", weight |-> 2,
     patterns |-> <<
        \* (apa itu|what is|qu\'est-ce que|was ist)
        [anch |-> FALSE, wb |-> FALSE, ws |-> FALSE, alts |-> <<
            <<<<"a","p","a"," ","i","t","u">>>>, <<<<"w","h","a","t"," ","i","s">>>>,
            <<<<"q","u","'","e","s","t","-","c","e"," ","q","u","e">>>>, <<<<"w","a","s"," ","i",
                "s","t">>>>>>],
        \* (siapa|who|qui|wer)
        [anch |-> FALSE, wb |-> FALSE, ws |-> FALSE, alts |-> <<
            <<<<"s","i","a","p","a">>>>, <<<<"w","h","o">>>>, <<<<"q","u","i">>>>, <<<<"w","e",
                "r">>>>>>],
        \* (mengapa|why|pourquoi|warum)
        [anch |-> FALSE, wb |-> FALSE, ws |-> FALSE, alts |-> <<
            <<<<"m","e","n","g","a","p","a">>>>, <<<<"w","h","y">>>>, <<<<"p","o","u","r","q","u",
                "o","i">>>>,
            <<<<"w","a","r","u","m">>>>>>],
        \* (bagaimana|how|comment|wie)
        [anch |-> FALSE, wb |-> FALSE, ws |-> FALSE, alts |-> <<
            <<<<"b","a","g","a","i","m","a","n","a">>>>, <<<<"h","o","w">>>>,
            <<<<"c","o","m","m","e","n","t">>>>, <<<<"w","i","e">>>>>>],
        \* (bandingkan|compare|comparison|perbandingan)
        [anch |-> FALSE, wb |-> FALSE, ws |-> FALSE, alts |-> <<
            <<<<"b","a","n","d","i","n","g","k","a","n">>>>, <<<<"c","o","m","p","a","r","e">>>>,
            <<<<"c","o","m","p","a","r","i","s","o","n">>>>,
            <<<<"p","e","r","b","a","n","d","i","n","g","a","n">>>>>>],
        \* (difference|perbedaan|berbeda|distinct)
        [anch |-> FALSE, wb |-> FALSE, ws |-> FALSE, alts |-> <<
            <<<<"d","i","f","f","e","r","e","n","c","e">>>>, <<<<"p","e","r","b","e","d","a","a",
                "n">>>>,
            <<<<"b","e","r","b","e","d","a">>>>, <<<<"d","i","s","t","i","n","c","t">>>>>>],
        \* (lebih baik|better|best|terbaik)
        [anch |-> FALSE, wb |-> FALSE, ws |-> FALSE, alts |-> <<
            <<<<"l","e","b","i","h"," ","b","a","i","k">>>>, <<<<"b","e","t","t","e","r">>>>,
            <<<<"b","e","s","t">>>>, <<<<"t","e","r","b","a","i","k">>>>>>],
        \* (vs|versus|dibanding|compared to)
        [anch |-> FALSE, wb |-> FALSE, ws |-> FALSE, alts |-> <<
            <<<<"v","s">>>>, <<<<"v","e","r","s","u","s">>>>, <<<<"d","i","b","a","n","d","i","n",
                "g">>>>,
            <<<<"c","o","m","p","a","r","e","d"," ","t","o">>>>>>],
        \* (penelitian|research|study|studi)
        [anch |-> FALSE, wb |-> FALSE, ws |-> FALSE, alts |-> <<
            <<<<"p","e","n","e","l","i","t","i","a","n">>>>, <<<<"r","e","s","e","a","r","c",
                "h">>>>,
            <<<<"s","t","u","d","y">>>>, <<<<"s","t","u","d","i">>>>>>],
        \* (university|universitas|college|kampus)
        [anch |-> FALSE, wb |-> FALSE, ws |-> FALSE, alts |-> <<
            <<<<"u","n","i","v","e","r","s","i","t","y">>>>,
            <<<<"u","n","i","v","e","r","s","i","t","a","s">>>>, <<<<"c","o","l","l","e","g",
                "e">>>>,
            <<<<"k","a","m","p","u","s">>>>>>],
        \* (buku|book|artikel|article|paper)
        [anch |-> FALSE, wb |-> FALSE, ws |-> FALSE, alts |-> <<
            <<<<"b","u","k","u">>>>, <<<<"b","o","o","k">>>>, <<<<"a","r","t","i","k","e","l">>>>,
            <<<<"a","r","t","i","c","l","e">>>>, <<<<"p","a","p","e","r">>>>>>],
        \* (definisi|definition|meaning|arti)
        [anch |-> FALSE, wb |-> FALSE, ws |-> FALSE, alts |-> <<
            <<<<"d","e","f","i","n","i","s","i">>>>, <<<<"d","e","f","i","n","i","t","i","o",
                "n">>>>,
            <<<<"m","e","a","n","i","n","g">>>>, <<<<"a","r","t","i">>>>>>],
        \* (company|perusahaan|corporation|bisnis)
        [anch |-> FALSE, wb |-> FALSE, ws |-> FALSE, alts |-> <<
            <<<<"c","o","m","p","a","n","y">>>>, <<<<"p","e","r","u","s","a","h","a","a","n">>>>,
            <<<<"c","o","r","p","o","r","a","t","i","o","n">>>>, <<<<"b","i","s","n","i","s">>>>>>],
        \* (CEO|founder|pendiri|owner|pemilik)
        [anch |-> FALSE, wb |-> FALSE, ws |-> FALSE, alts |-> <<
            <<<<"C","E","O">>>>, <<<<"f","o","u","n","d","e","r">>>>, <<<<"p","e","n","d","i","r",
                "i">>>>,
            <<<<"o","w","n","e","r">>>>, <<<<"p","e","m","i","l","i","k">>>>>>],
        \* (product|produk|service|layanan)
        [anch |-> FALSE, wb |-> FALSE, ws |-> FALSE, alts |-> <<
            <<<<"p","r","o","d","u","c","t">>>>, <<<<"p","r","o","d","u","k">>>>,
            <<<<"s","e","r","v","i","c","e">>>>, <<<<"l","a","y","a","n","a","n">>>>>>],
        \* (market|pasar|industry|industri)
        [anch |-> FALSE, wb |-> FALSE, ws |-> FALSE, alts |-> <<
            <<<<"m","a","r","k","e","t">>>>, <<<<"p","a","s","a","r">>>>,
            <<<<"i","n","d","u","s","t","r","y">>>>, <<<<"i","n","d","u","s","t","r","i">>>>>>]>>],
    [priority |-> "low_priority", weight |-> 1,
     patterns |-> <<
        \* (sejarah|history|historical|historique)
        [anch |-> FALSE, wb |-> FALSE, ws |-> FALSE, alts |-> <<
            <<<<"s","e","j","a","r","a","h">>>>, <<<<"h","i","s","t","o","r","y">>>>,
            <<<<"h","i","s","t","o","r","i","c","a","l">>>>, <<<<"h","i","s","t","o","r","i","q",
                "u","e">>>>>>],
        \* (budaya|culture|tradition|tradisi)
        [anch |-> FALSE, wb |-> FALSE, ws |-> FALSE, alts |-> <<
            <<<<"b","u","d","a","y","a">>>>, <<<<"c","u","l","t","u","r","e">>>>,
            <<<<"t","r","a","d","i","t","i","o","n">>>>, <<<<"t","r","a","d","i","s","i">>>>>>],
        \* (bahasa|language|linguistic|linguistik)
        [anch |-> FALSE, wb |-> FALSE, ws |-> FALSE, alts |-> <<
            <<<<"b","a","h","a","s","a">>>>, <<<<"l","a","n","g","u","a","g","e">>>>,
            <<<<"l","i","n","g","u","i","s","t","i","c">>>>, <<<<"l","i","n","g","u","i","s","t",
                "i","k">>>>>>],
        \* (negara|country|nation|bangsa)
        [anch |-> FALSE, wb |-> FALSE, ws |-> FALSE, alts |-> <<
            <<<<"n","e","g","a","r","a">>>>, <<<<"c","o","u","n","t","r","y">>>>,
            <<<<"n","a","t","i","o","n">>>>, <<<<"b","a","n","g","s","a">>>>>>],
        \* (pelajaran|lesson|tutorial|guide)
        [anch |-> FALSE, wb |-> FALSE, ws |-> FALSE, alts |-> <<
            <<<<"p","e","l","a","j","a","r","a","n">>>>, <<<<"l","e","s","s","o","n">>>>,
            <<<<"t","u","t","o","r","i","a","l">>>>, <<<<"g","u","i","d","e">>>>>>],
        \* (explain|jelaskan|cara|method)
        [anch |-> FALSE, wb |-> FALSE, ws |-> FALSE, alts |-> <<
            <<<<"e","x","p","l","a","i","n">>>>, <<<<"j","e","l","a","s","k","a","n">>>>,
            <<<<"c","a","r","a">>>>, <<<<"m","e","t","h","o","d">>>>>>],
        \* (tips|advice|saran|recommendation)
        [anch |-> FALSE, wb |-> FALSE, ws |-> FALSE, alts |-> <<
            <<<<"t","i","p","s">>>>, <<<<"a","d","v","i","c","e">>>>, <<<<"s","a","r","a","n">>>>,
            <<<<"r","e","c","o","m","m","e","n","d","a","t","i","o","n">>>>>>],
        \* (example|contoh|sample|ilustrasi)
        [anch |-> FALSE, wb |-> FALSE, ws |-> FALSE, alts |-> <<
            <<<<"e","x","a","m","p","l","e">>>>, <<<<"c","o","n","t","o","h">>>>,
            <<<<"s","a","m","p","l","e">>>>, <<<<"i","l","u","s","t","r","a","s","i">>>>>>]>>]>>

command_patterns == <<
    [command |-> "help",
     patterns |-> <<
        \* (bantuan|help|aide|hilfe|U+30D8 U+30EB U+30D7 |U+B3C4 U+C6C0 |U+5E2E U+52A9 |U+0645 U+0633 U+0627 U+0639 U+062F U+0629 )
        [anch |-> FALSE, wb |-> FALSE, ws |-> FALSE, alts |-> <<
            <<<<"b","a","n","t","u","a","n">>>>, <<<<"h","e","l","p">>>>, <<<<"a","i","d","e">>>>,
            <<<<"h","i","l","f","e">>>>, <<<<"U+30D8","U+30EB","U+30D7">>>>, <<<<"U+B3C4",
                "U+C6C0">>>>,
            <<<<"U+5E2E","U+52A9">>>>, <<<<"U+0645","U+0633","U+0627","U+0639","U+062F",
                "U+0629">>>>>>],
        \* (perintah|commands|commandes|befehle)
        [anch |-> FALSE, wb |-> FALSE, ws |-> FALSE, alts |-> <<
            <<<<"p","e","r","i","n","t","a","h">>>>, <<<<"c","o","m","m","a","n","d","s">>>>,
            <<<<"c","o","m","m","a","n","d","e","s">>>>, <<<<"b","e","f","e","h","l","e">>>>>>]>>],
    [command |-> "clear_conversation",
     patterns |-> <<
        \* (hapus.*percakapan|clear.*conversation)
        [anch |-> FALSE, wb |-> FALSE, ws |-> FALSE, alts |-> <<
            <<<<"h","a","p","u","s">>, <<"p","e","r","c","a","k","a","p","a","n">>>>,
            <<<<"c","l","e","a","r">>, <<"c","o","n","v","e","r","s","a","t","i","o","n">>>>>>],
        \* (reset.*chat|mulai.*baru)
        [anch |-> FALSE, wb |-> FALSE, ws |-> FALSE, alts |-> <<
            <<<<"r","e","s","e","t">>, <<"c","h","a","t">>>>, <<<<"m","u","l","a","i">>, <<"b","a",
                "r","u">>>>>>]>>],
    [command |-> "settings",
     patterns |-> <<
        \* (pengaturan|settings|paramU+00E8 tres|einstellungen|U+8A2D U+5B9A |U+C124 U+C815 |U+8BBE U+7F6E |U+0625 U+0639 U+062F U+0627 U+062F U+0627 U+062A )
        [anch |-> FALSE, wb |-> FALSE, ws |-> FALSE, alts |-> <<
            <<<<"p","e","n","g","a","t","u","r","a","n">>>>, <<<<"s","e","t","t","i","n","g",
                "s">>>>,
            <<<<"p","a","r","a","m","U+00E8","t","r","e","s">>>>,
            <<<<"e","i","n","s","t","e","l","l","u","n","g","e","n">>>>, <<<<"U+8A2D","U+5B9A">>>>,
            <<<<"U+C124","U+C815">>>>, <<<<"U+8BBE","U+7F6E">>>>,
            <<<<"U+0625","U+0639","U+062F","U+0627","U+062F","U+0627","U+062A">>>>>>]>>]>>

question_indicators == <<
    \* \b(apa|what|siapa|who|dimana|where|kapan|when|berapa|how much|how many)\b
    [anch |-> FALSE, wb |-> TRUE, ws |-> FALSE, alts |-> <<
        <<<<"a","p","a">>>>, <<<<"w","h","a","t">>>>, <<<<"s","i","a","p","a">>>>, <<<<"w","h",
            "o">>>>,
        <<<<"d","i","m","a","n","a">>>>, <<<<"w","h","e","r","e">>>>, <<<<"k","a","p","a","n">>>>,
        <<<<"w","h","e","n">>>>, <<<<"b","e","r","a","p","a">>>>, <<<<"h","o","w"," ","m","u","c",
            "h">>>>,
        <<<<"h","o","w"," ","m","a","n","y">>>>>>],
    \* \b(bagaimana|how|mengapa|why|apakah|is|are)\b
    [anch |-> FALSE, wb |-> TRUE, ws |-> FALSE, alts |-> <<
        <<<<"b","a","g","a","i","m","a","n","a">>>>, <<<<"h","o","w">>>>,
        <<<<"m","e","n","g","a","p","a">>>>, <<<<"w","h","y">>>>, <<<<"a","p","a","k","a","h">>>>,
        <<<<"i","s">>>>, <<<<"a","r","e">>>>>>]>>

time_keywords == <<
    \* \b(2024|2025|tahun ini|this year|bulan ini|this month)\b
    [anch |-> FALSE, wb |-> TRUE, ws |-> FALSE, alts |-> <<
        <<<<"2","0","2","4">>>>, <<<<"2","0","2","5">>>>, <<<<"t","a","h","u","n"," ","i","n",
            "i">>>>,
        <<<<"t","h","i","s"," ","y","e","a","r">>>>, <<<<"b","u","l","a","n"," ","i","n","i">>>>,
        <<<<"t","h","i","s"," ","m","o","n","t","h">>>>>>],
    \* \b(tadi|just|baru saja|recently|lately)\b
    [anch |-> FALSE, wb |-> TRUE, ws |-> FALSE, alts |-> <<
        <<<<"t","a","d","i">>>>, <<<<"j","u","s","t">>>>, <<<<"b","a","r","u"," ","s","a","j",
            "a">>>>,
        <<<<"r","e","c","e","n","t","l","y">>>>, <<<<"l","a","t","e","l","y">>>>>>],
    \* \b(akan|will|future|masa depan|nanti)\b
    [anch |-> FALSE, wb |-> TRUE, ws |-> FALSE, alts |-> <<
        <<<<"a","k","a","n">>>>, <<<<"w","i","l","l">>>>, <<<<"f","u","t","u","r","e">>>>,
        <<<<"m","a","s","a"," ","d","e","p","a","n">>>>, <<<<"n","a","n","t","i">>>>>>]>>

factual_indicators == <<
    \* \b(data|statistics|facts|informasi|detail|specification)\b
    [anch |-> FALSE, wb |-> TRUE, ws |-> FALSE, alts |-> <<
        <<<<"d","a","t","a">>>>, <<<<"s","t","a","t","i","s","t","i","c","s">>>>,
        <<<<"f","a","c","t","s">>>>, <<<<"i","n","f","o","r","m","a","s","i">>>>,
        <<<<"d","e","t","a","i","l">>>>, <<<<"s","p","e","c","i","f","i","c","a","t","i","o",
            "n">>>>>>],
    \* \b(official|resmi|accurate|akurat|valid)\b
    [anch |-> FALSE, wb |-> TRUE, ws |-> FALSE, alts |-> <<
        <<<<"o","f","f","i","c","i","a","l">>>>, <<<<"r","e","s","m","i">>>>,
        <<<<"a","c","c","u","r","a","t","e">>>>, <<<<"a","k","u","r","a","t">>>>,
        <<<<"v","a","l","i","d">>>>>>],
    \* \b(source|sumber|reference|referensi)\b
    [anch |-> FALSE, wb |-> TRUE, ws |-> FALSE, alts |-> <<
        <<<<"s","o","u","r","c","e">>>>, <<<<"s","u","m","b","e","r">>>>,
        <<<<"r","e","f","e","r","e","n","c","e">>>>, <<<<"r","e","f","e","r","e","n","s",
            "i">>>>>>]>>

domain_keywords == <<
    \* \b(API|software|hardware|programming|coding)\b
    [anch |-> FALSE, wb |-> TRUE, ws |-> FALSE, alts |-> <<
        <<<<"A","P","I">>>>, <<<<"s","o","f","t","w","a","r","e">>>>,
        <<<<"h","a","r","d","w","a","r","e">>>>, <<<<"p","r","o","g","r","a","m","m","i","n",
            "g">>>>,
        <<<<"c","o","d","i","n","g">>>>>>],
    \* \b(medicine|medical|health|treatment|obat)\b
    [anch |-> FALSE, wb |-> TRUE, ws |-> FALSE, alts |-> <<
        <<<<"m","e","d","i","c","i","n","e">>>>, <<<<"m","e","d","i","c","a","l">>>>,
        <<<<"h","e","a","l","t","h">>>>, <<<<"t","r","e","a","t","m","e","n","t">>>>,
        <<<<"o","b","a","t">>>>>>],
    \* \b(legal|law|regulation|peraturan|hukum)\b
    [anch |-> FALSE, wb |-> TRUE, ws |-> FALSE, alts |-> <<
        <<<<"l","e","g","a","l">>>>, <<<<"l","a","w">>>>, <<<<"r","e","g","u","l","a","t","i","o",
            "n">>>>,
        <<<<"p","e","r","a","t","u","r","a","n">>>>, <<<<"h","u","k","u","m">>>>>>],
    \* \b(finance|financial|investment|investasi)\b
    [anch |-> FALSE, wb |-> TRUE, ws |-> FALSE, alts |-> <<
        <<<<"f","i","n","a","n","c","e">>>>, <<<<"f","i","n","a","n","c","i","a","l">>>>,
        <<<<"i","n","v","e","s","t","m","e","n","t">>>>, <<<<"i","n","v","e","s","t","a","s",
            "i">>>>>>]>>

uncertainty_indicators == <<
    \* \b(correct|benar|accurate|akurat|sure|yakin)\b
    [anch |-> FALSE, wb |-> TRUE, ws |-> FALSE, alts |-> <<
        <<<<"c","o","r","r","e","c","t">>>>, <<<<"b","e","n","a","r">>>>,
        <<<<"a","c","c","u","r","a","t","e">>>>, <<<<"a","k","u","r","a","t">>>>, <<<<"s","u","r",
            "e">>>>,
        <<<<"y","a","k","i","n">>>>>>],
    \* \b(verify|verifikasi|confirm|konfirmasi)\b
    [anch |-> FALSE, wb |-> TRUE, ws |-> FALSE, alts |-> <<
        <<<<"v","e","r","i","f","y">>>>, <<<<"v","e","r","i","f","i","k","a","s","i">>>>,
        <<<<"c","o","n","f","i","r","m">>>>, <<<<"k","o","n","f","i","r","m","a","s","i">>>>>>],
    \* \b(real|nyata|actual|sebenarnya)\b
    [anch |-> FALSE, wb |-> TRUE, ws |-> FALSE, alts |-> <<
        <<<<"r","e","a","l">>>>, <<<<"n","y","a","t","a">>>>, <<<<"a","c","t","u","a","l">>>>,
        <<<<"s","e","b","e","n","a","r","n","y","a">>>>>>]>>

always_ground_patterns == <<
    \* \b(price|harga|cost|biaya)\b.*\b(today|hari ini|now|sekarang)\b
    [anch |-> FALSE, wb |-> TRUE, ws |-> FALSE, alts |-> <<
        <<<<"p","r","i","c","e">>, <<"t","o","d","a","y">>>>,
        <<<<"p","r","i","c","e">>, <<"h","a","r","i"," ","i","n","i">>>>,
        <<<<"p","r","i","c","e">>, <<"n","o","w">>>>,
        <<<<"p","r","i","c","e">>, <<"s","e","k","a","r","a","n","g">>>>,
        <<<<"h","a","r","g","a">>, <<"t","o","d","a","y">>>>,
        <<<<"h","a","r","g","a">>, <<"h","a","r","i"," ","i","n","i">>>>,
        <<<<"h","a","r","g","a">>, <<"n","o","w">>>>,
        <<<<"h","a","r","g","a">>, <<"s","e","k","a","r","a","n","g">>>>,
        <<<<"c","o","s","t">>, <<"t","o","d","a","y">>>>,
        <<<<"c","o","s","t">>, <<"h","a","r","i"," ","i","n","i">>>>,
        <<<<"c","o","s","t">>, <<"n","o","w">>>>,
        <<<<"c","o","s","t">>, <<"s","e","k","a","r","a","n","g">>>>,
        <<<<"b","i","a","y","a">>, <<"t","o","d","a","y">>>>,
        <<<<"b","i","a","y","a">>, <<"h","a","r","i"," ","i","n","i">>>>,
        <<<<"b","i","a","y","a">>, <<"n","o","w">>>>,
        <<<<"b","i","a","y","a">>, <<"s","e","k","a","r","a","n","g">>>>>>],
    \* \b(status|kondisi|condition)\b.*\b(current|terkini|latest)\b
    [anch |-> FALSE, wb |-> TRUE, ws |-> FALSE, alts |-> <<
        <<<<"s","t","a","t","u","s">>, <<"c","u","r","r","e","n","t">>>>,
        <<<<"s","t","a","t","u","s">>, <<"t","e","r","k","i","n","i">>>>,
        <<<<"s","t","a","t","u","s">>, <<"l","a","t","e","s","t">>>>,
        <<<<"k","o","n","d","i","s","i">>, <<"c","u","r","r","e","n","t">>>>,
        <<<<"k","o","n","d","i","s","i">>, <<"t","e","r","k","i","n","i">>>>,
        <<<<"k","o","n","d","i","s","i">>, <<"l","a","t","e","s","t">>>>,
        <<<<"c","o","n","d","i","t","i","o","n">>, <<"c","u","r","r","e","n","t">>>>,
        <<<<"c","o","n","d","i","t","i","o","n">>, <<"t","e","r","k","i","n","i">>>>,
        <<<<"c","o","n","d","i","t","i","o","n">>, <<"l","a","t","e","s","t">>>>>>],
    \* \b(update|pembaruan|info terbaru)\b
    [anch |-> FALSE, wb |-> TRUE, ws |-> FALSE, alts |-> <<
        <<<<"u","p","d","a","t","e">>>>, <<<<"p","e","m","b","a","r","u","a","n">>>>,
        <<<<"i","n","f","o"," ","t","e","r","b","a","r","u">>>>>>],
    \* \b(live|realtime|real-time)\b
    [anch |-> FALSE, wb |-> TRUE, ws |-> FALSE, alts |-> <<
        <<<<"l","i","v","e">>>>, <<<<"r","e","a","l","t","i","m","e">>>>,
        <<<<"r","e","a","l","-","t","i","m","e">>>>>>]>>

direct_address == 
    \* (bot|kamu|you|assistant)
    [anch |-> FALSE, wb |-> FALSE, ws |-> FALSE, alts |-> <<
        <<<<"b","o","t">>>>, <<<<"k","a","m","u">>>>, <<<<"y","o","u">>>>,
        <<<<"a","s","s","i","s","t","a","n","t">>>>>>]

complexity_high == 
    [anch |-> FALSE, wb |-> FALSE, ws |-> FALSE, alts |-> <<
        <<<<"m","e","n","g","a","p","a">>>>, <<<<"w","h","y">>>>,
        <<<<"b","a","g","a","i","m","a","n","a">>>>, <<<<"h","o","w">>>>,
        <<<<"j","e","l","a","s","k","a","n">>>>, <<<<"e","x","p","l","a","i","n">>>>,
        <<<<"a","n","a","l","i","s","a">>>>, <<<<"a","n","a","l","y","z","e">>>>>>]

(***************************************************************************)
(* Strings: the str methods the source uses.                                *)
(***************************************************************************)
\* the sequence s as a tuple, each of its elements computed once
Tuple(s) == SubSeq(s, 1, Len(s))

\* str.lower()
Lower(s) == Tuple([i \in 1..Len(s) |-> LowerChar(s[i])])

IsSpace(ch) == ch \in Whitespace

IsWord(ch) == ch \in WordChars

\* the first and the last position of s that hold no whitespace (0 when none)
FirstKept(s) ==
    IF \A i \in 1..Len(s) : IsSpace(s[i]) THEN 0
    ELSE CHOOSE i \in 1..Len(s) : ~IsSpace(s[i]) /\ \A j \in 1..(i - 1) : IsSpace(s[j])

\* the same, counted from the end of s
FirstKeptFromEnd(s) ==
    CHOOSE k \in 1..Len(s) :
        ~IsSpace(s[Len(s) + 1 - k]) /\ \A j \in 1..(k - 1) : IsSpace(s[Len(s) + 1 - j])

LastKept(s) ==
    IF \A i \in 1..Len(s) : IsSpace(s[i]) THEN 0 ELSE Len(s) + 1 - FirstKeptFromEnd(s)

\* str.strip(): without the leading and the trailing whitespace
Strip(s) == IF FirstKept(s) = 0 THEN <<>> ELSE SubSeq(s, FirstKept(s), LastKept(s))

\* the fields of s between the positions of the set cuts, in order
Fields(s, cuts) ==
    LET bounds == cuts \cup {0, Len(s) + 1}
        Nth(k) == CHOOSE c \in bounds : Cardinality({d \in bounds : d < c}) = k
    IN  Tuple([k \in 1..(Cardinality(bounds) - 1) |-> SubSeq(s, Nth(k - 1) + 1, Nth(k) - 1)])

\* str.split(): the maximal runs of non-whitespace characters, in order
Split(s) == SelectSeq(Fields(s, {i \in 1..Len(s) : IsSpace(s[i])}), LAMBDA f : f # <<>>)

\* str.split(sep) for a one-character separator: empty fields are kept
SplitOn(s, sep) == Fields(s, {i \in 1..Len(s) : s[i] = sep})

\* sep.join(parts)
RECURSIVE Join(_, _)
Join(parts, sep) ==
    IF parts = <<>> THEN <<>>
    ELSE IF Len(parts) = 1 THEN parts[1]
    ELSE parts[1] \o sep \o Join(Tail(parts), sep)

\* s.startswith(p)
StartsWith(s, p) == Len(p) <= Len(s) /\ \A k \in 1..Len(p) : s[k] = p[k]

\* p in s
Contains(s, p) ==
    \E i \in 1..(Len(s) - Len(p) + 1) : \A k \in 1..Len(p) : s[i + k - 1] = p[k]

\* s.replace(ch, '') for a one-character ch
Remove(s, ch) == SelectSeq(s, LAMBDA c : c # ch)

(***************************************************************************)
(* Regular expressions: re.findall and re.search over the pattern records.  *)
(* An index is a position of the text; a match is given by the position     *)
(* after its last character, 0 standing for no match.                       *)
(***************************************************************************)
WordAt(t, i) == i >= 1 /\ i <= Len(t) /\ IsWord(t[i])

\* the literal at position i, between two "\b" when wb
LitAt(t, i, lit, wb) ==
    IF /\ i + Len(lit) - 1 <= Len(t)
       /\ \A k \in 1..Len(lit) : t[i + k - 1] = lit[k]
       /\ wb => /\ WordAt(t, i - 1) # WordAt(t, i)
                /\ WordAt(t, i + Len(lit) - 1) # WordAt(t, i + Len(lit))
    THEN i + Len(lit)
    ELSE 0

\* the greatest element of a set of positions, 0 when it is empty
Greatest(S) == IF S = {} THEN 0 ELSE CHOOSE j \in S : \A k \in S : k <= j

\* the least element of a set of positions, 0 when it is empty
Least(S) == IF S = {} THEN 0 ELSE CHOOSE j \in S : \A k \in S : j <= k

\* a chain of literals joined by ".*" (greedy: the last place the rest matches)
RECURSIVE ChainAt(_, _, _, _)
ChainLast(t, start, chain, wb) ==
    IF start = 0 THEN 0 ELSE ChainAt(t, start, Tail(chain), wb)

\* the chain whose first literal ends before position e
ChainFrom(t, e, chain, wb) ==
    IF e = 0 \/ Len(chain) = 1 THEN e
    ELSE ChainLast(t, Greatest({j \in e..Len(t) : ChainAt(t, j, Tail(chain), wb) # 0}),
                   chain, wb)

ChainAt(t, i, chain, wb) == ChainFrom(t, LitAt(t, i, chain[1], wb), chain, wb)

\* the "\s" that follows the group when ws, after a match that ends before e
SpaceAt(t, e, ws) ==
    IF e = 0 THEN 0
    ELSE IF ~ws THEN e
    ELSE IF e <= Len(t) /\ IsSpace(t[e]) THEN e + 1
    ELSE 0

\* one alternative at position i
AltAt(t, i, p, a) == SpaceAt(t, ChainAt(t, i, p.alts[a], p.wb), p.ws)

\* the first of the ends that is a match
FirstMatch(ends) ==
    IF \A a \in 1..Len(ends) : ends[a] = 0 THEN 0
    ELSE ends[Least({a \in 1..Len(ends) : ends[a] # 0})]

\* the first alternative, in order, that matches at position i
MatchAt(t, i, p) == FirstMatch(Tuple([a \in 1..Len(p.alts) |-> AltAt(t, i, p, a)]))

\* the matches taken from position i on, leftmost first and not overlapping,
\* ends[j] being the end of the match that starts at j
RECURSIVE CountFrom(_, _)
CountNext(ends, start) == IF start = 0 THEN 0 ELSE 1 + CountFrom(ends, ends[start])

CountFrom(ends, i) == CountNext(ends, Least({j \in i..Len(ends) : ends[j] # 0}))

\* the ends of the matches of p at each position the search may start from
MatchEnds(p, t) ==
    Tuple([j \in 1..(IF p.anch THEN (IF Len(t) >= 1 THEN 1 ELSE 0) ELSE Len(t)) |->
              MatchAt(t, j, p)])

\* len(re.findall(p, t))
FindAll(p, t) == CountFrom(MatchEnds(p, t), 1)

\* re.search(p, t) is not None
Search(p, t) == FirstMatch(MatchEnds(p, t)) # 0

\* flags=re.IGNORECASE: the pattern's literals compared in lower case
IgnoreCase(p) ==
    [p EXCEPT !.alts = Tuple([a \in 1..Len(p.alts) |->
                          Tuple([l \in 1..Len(p.alts[a]) |-> Lower(p.alts[a][l])])])]

(***************************************************************************)
(* Values: None, a raised exception, and numbers such as 0.5 or score/4.0   *)
(* kept as exact fractions.                                                 *)
(***************************************************************************)
None == [kind |-> "None"]

Raised(exc) == [kind |-> "Raised", exc |-> exc]

Rat(n, d) == [num |-> n, den |-> d]

RatLt(a, b) == a.num * b.den < b.num * a.den

RatEq(a, b) == a.num * b.den = b.num * a.den

\* min(n / d, 1.0)
RatMin1(n, d) == IF n >= d THEN Rat(1, 1) ELSE Rat(n, d)

RECURSIVE SumFrom(_, _)
SumFrom(s, i) == IF i > Len(s) THEN 0 ELSE s[i] + SumFrom(s, i + 1)

\* sum(s)
SumSeq(s) == SumFrom(Tuple(s), 1)

\* a variant of ArgMax that takes the last index that holds the greatest value
ArgMaxLast(s) ==
    CHOOSE i \in 1..Len(s) :
        /\ \A j \in 1..Len(s) : s[j] <= s[i]
        /\ \A j \in (i + 1)..Len(s) : s[j] < s[i]

\* the first index of s that holds its greatest value: max(d, key=d.get)
ArgMax(s) == CHOOSE i \in 1..Len(s) :
                /\ \A j \in 1..Len(s) : s[j] <= s[i]
                /\ \A j \in 1..(i - 1) : s[j] < s[i]

(***************************************************************************)
(* AICore.detect_language                                                   *)
(***************************************************************************)
FallbackLanguage == [language |-> "indonesian", confidence |-> Rat(1, 2)]

\* the score of one language before it is divided by the number of tokens
LanguageScore(data, text_lower) ==
    2 * Cardinality({k \in 1..Len(data.keywords) : Contains(text_lower, Lower(data.keywords[k]))})
    + SumSeq([k \in 1..Len(data.patterns) |-> FindAll(data.patterns[k], text_lower)])

\* scores[lang], before the division, for each language in the order of LANGUAGE_PATTERNS
LanguageScores(patterns, text_lower) ==
    Tuple([l \in 1..Len(patterns) |-> LanguageScore(patterns[l], text_lower)])

\* variant: the fallback also when the confidence is 0.1
ConfidentAbove(language, confidence) ==
    IF ~RatLt(Rat(1, 10), confidence) THEN FallbackLanguage
    ELSE [language |-> language, confidence |-> confidence]

\* the fallback when the confidence is below 0.1
Confident(language, confidence) ==
    IF RatLt(confidence, Rat(1, 10)) THEN FallbackLanguage
    ELSE [language |-> language, confidence |-> confidence]

\* best_lang = max(scores, key=scores.get) and min(scores[best_lang], 1.0)
BestLanguage(patterns, scores, best, tokens) ==
    Confident(patterns[best].lang, RatMin1(scores[best], tokens))

DetectIn(patterns, scores, tokens) == BestLanguage(patterns, scores, ArgMax(scores), tokens)

DetectLower(patterns, text_lower) ==
    DetectIn(patterns, LanguageScores(patterns, text_lower), Len(Split(text_lower)))

detect_language(text) ==
    IF text = <<>> \/ Strip(text) = <<>> THEN FallbackLanguage
    ELSE DetectLower(LANGUAGE_PATTERNS, Strip(Lower(text)))

(***************************************************************************)
(* AICore.analyze_intent and its helpers                                    *)
(***************************************************************************)
low_acknowledgements == <<
    <<"y","a">>, <<"n","o">>, <<"y","e","s">>, <<"o","k">>,
    <<"t","e","r","i","m","a"," ","k","a","s","i","h">>, <<"t","h","a","n","k","s">> >>

ComplexityOf(message_lower) ==
    IF Search(IgnoreCase(complexity_high), message_lower) THEN "high"
    ELSE IF \E k \in 1..Len(low_acknowledgements) : message_lower = low_acknowledgements[k]
         THEN "low"
    ELSE "medium"

_get_complexity(message) == ComplexityOf(Lower(message))

BaseStyle(intent) ==
    IF intent = "detailed_explanation"
    THEN [length |-> "long", tone |-> "friendly", format |-> "structured"]
    ELSE IF intent = "simple_question"
    THEN [length |-> "short", tone |-> "friendly", format |-> "paragraph"]
    ELSE IF intent = "urgent_help"
    THEN [length |-> "medium", tone |-> "helpful", format |-> "paragraph"]
    ELSE IF intent = "greeting"
    THEN [length |-> "short", tone |-> "friendly", format |-> "paragraph"]
    ELSE [length |-> "medium", tone |-> "friendly", format |-> "paragraph"]

\* variant: a low complexity shortens only a medium base
AdjustedUnlessLong(style, complexity) ==
    IF complexity = "high" /\ style.length = "short" THEN [style EXCEPT !.length = "medium"]
    ELSE IF complexity = "low" /\ style.length # "long" THEN [style EXCEPT !.length = "short"]
    ELSE style

AdjustedStyle(style, complexity) ==
    IF complexity = "high" /\ style.length = "short" THEN [style EXCEPT !.length = "medium"]
    ELSE IF complexity = "low" THEN [style EXCEPT !.length = "short"]
    ELSE style

_get_response_style(intent, complexity) == AdjustedStyle(BaseStyle(intent), complexity)

_default_intent ==
    [language |-> "indonesian", confidence |-> Rat(1, 2), primary_intent |-> "general",
     complexity |-> "medium",
     response_style |-> [length |-> "medium", tone |-> "friendly", format |-> "paragraph"],
     message_length |-> 0, has_question_mark |-> FALSE]

IntentScore(data, message_lower) ==
    SumSeq([k \in 1..Len(data.patterns) |->
                FindAll(IgnoreCase(data.patterns[k]), message_lower) * data.weight])

intent_scores(patterns, message_lower) ==
    Tuple([k \in 1..Len(patterns) |-> IntentScore(patterns[k], message_lower)])

\* max(intent_scores, key=intent_scores.get) if max(intent_scores.values()) > 0 else 'general'
PrimaryIntent(patterns, scores, best) ==
    IF scores[best] > 0 THEN patterns[best].intent ELSE "general"

Analysis(message, language, confidence, primary_intent, complexity) ==
    [language |-> language,
     confidence |-> confidence,
     primary_intent |-> primary_intent,
     complexity |-> complexity,
     response_style |-> _get_response_style(primary_intent, complexity),
     message_length |-> Len(Split(message)),
     has_question_mark |-> \E i \in 1..Len(message) : message[i] = "?"]

AnalyseScores(message, detected, patterns, scores, message_lower) ==
    Analysis(message, detected.language, detected.confidence,
             PrimaryIntent(patterns, scores, ArgMax(scores)), _get_complexity(message_lower))

AnalyseLower(message, detected, patterns, message_lower) ==
    AnalyseScores(message, detected, patterns, intent_scores(patterns, message_lower),
                  message_lower)

\* language = "" stands for the argument left out (None)
analyze_intent(message, language) ==
    IF message = <<>> THEN _default_intent
    ELSE AnalyseLower(message,
                      IF language = "" THEN detect_language(message)
                      ELSE [language |-> language, confidence |-> Rat(8, 10)],
                      intent_patterns, Strip(Lower(message)))

(***************************************************************************)
(* AICore.detect_command                                                    *)
(***************************************************************************)
explicit_mapping == <<
    [alias |-> <<"h","e","l","p">>, command |-> "help"],
    [alias |-> <<"b","a","n","t","u","a","n">>, command |-> "help"],
    [alias |-> <<"c","l","e","a","r","c","o","n","v","e","r","s","a","t","i","o","n">>,
     command |-> "clear_conversation"],
    [alias |-> <<"c","l","e","a","r">>, command |-> "clear_conversation"],
    [alias |-> <<"s","e","t","t","i","n","g","s">>, command |-> "settings"],
    [alias |-> <<"p","e","n","g","a","t","u","r","a","n">>, command |-> "settings"] >>

Detection(command, confidence, explicit, language) ==
    [kind |-> "Detection", command |-> command, confidence |-> confidence,
     explicit |-> explicit, language |-> language]

\* variant: the score without the point of the direct-address cue
PatternScore(patterns, message_lower) ==
    2 * Cardinality({k \in 1..Len(patterns) : Search(IgnoreCase(patterns[k]), message_lower)})

\* the score of one natural-language command category
CommandScore(patterns, message_lower) ==
    2 * Cardinality({k \in 1..Len(patterns) : Search(IgnoreCase(patterns[k]), message_lower)})
    + (IF Search(IgnoreCase(direct_address), message_lower) THEN 1 ELSE 0)

command_threshold == 2

\* explicit_mapping.get(command_part)
ExplicitCommand(mapping, hit) ==
    IF hit = 0 THEN None ELSE Detection(mapping[hit].command, Rat(1, 1), TRUE, "")

\* message[1:].split()[0].lower() and the lookup
DetectExplicit(mapping, parts) ==
    IF parts = <<>> THEN Raised("IndexError")
    ELSE ExplicitCommand(mapping,
            Least({k \in 1..Len(mapping) : mapping[k].alias = Lower(parts[1])}))

\* the first category, in the order of command_patterns, whose score reaches 2
FirstReached(patterns, scores, first, detected_lang) ==
    IF first = 0 THEN None
    ELSE Detection(patterns[first].command, RatMin1(scores[first], 4), FALSE, detected_lang)

DetectScores(patterns, scores, detected_lang) ==
    FirstReached(patterns, scores,
                 Least({c \in 1..Len(patterns) : scores[c] >= command_threshold}),
                 detected_lang)

DetectNatural(patterns, message_lower, detected_lang) ==
    DetectScores(patterns,
                 Tuple([c \in 1..Len(patterns) |->
                           CommandScore(patterns[c].patterns, message_lower)]),
                 detected_lang)

detect_command(message) ==
    IF message = <<>> THEN None
    ELSE IF message[1] = "/" THEN DetectExplicit(explicit_mapping, Split(Tail(message)))
    ELSE DetectNatural(command_patterns, Strip(Lower(message)),
                       detect_language(message).language)

(***************************************************************************)
(* AICore._should_use_grounding                                             *)
(***************************************************************************)
UpperAZ == {"A","B","C","D","E","F","G","H","I","J","K","L","M",
            "N","O","P","Q","R","S","T","U","V","W","X","Y","Z"}

LowerAZ == {"a","b","c","d","e","f","g","h","i","j","k","l","m",
            "n","o","p","q","r","s","t","u","v","w","x","y","z"}

Digits == {"0","1","2","3","4","5","6","7","8","9"}

\* re.search(r'\b[A-Z][a-z]+(?:\s+[A-Z][a-z]+)*\b', message)
HasProperNoun(message) ==
    \E i \in 1..Len(message) : \E e \in (i + 1)..Len(message) :
        /\ message[i] \in UpperAZ
        /\ ~WordAt(message, i - 1)
        /\ \A k \in (i + 1)..e : message[k] \in LowerAZ
        /\ ~WordAt(message, e + 1)

\* re.search(r'\b\d+(?:[.,]\d+)*\b', message)
HasNumber(message) ==
    \E i \in 1..Len(message) : \E e \in i..Len(message) :
        /\ ~WordAt(message, i - 1)
        /\ \A k \in i..e : message[k] \in Digits
        /\ ~WordAt(message, e + 1)

\* how many patterns of the list are found in the text
Found(patterns, t) == Cardinality({k \in 1..Len(patterns) : Search(patterns[k], t)})

FoundIgnoreCase(patterns, t) ==
    Cardinality({k \in 1..Len(patterns) : Search(IgnoreCase(patterns[k]), t)})

\* a variant of TierScore that leaves out the weight of the tier
TierMatches(data, message_lower) ==
    SumSeq([k \in 1..Len(data.patterns) |->
                FindAll(IgnoreCase(data.patterns[k]), message_lower)])

TierScore(data, message_lower) ==
    SumSeq([k \in 1..Len(data.patterns) |->
                FindAll(IgnoreCase(data.patterns[k]), message_lower) * data.weight])

GroundingScore(message, message_lower) ==
      SumSeq([p \in 1..Len(grounding_patterns) |-> TierScore(grounding_patterns[p], message_lower)])
    + Found(question_indicators, message_lower)
    + 2 * Found(time_keywords, message_lower)
    + Found(factual_indicators, message_lower)
    + (IF HasProperNoun(message) THEN 1 ELSE 0)
    + (IF HasNumber(message) THEN 1 ELSE 0)
    + 2 * FoundIgnoreCase(domain_keywords, message_lower)
    + Found(uncertainty_indicators, message_lower)

grounding_score(message) == GroundingScore(message, Lower(message))

grounding_threshold == 2

\* a variant of _should_use_grounding in which only current_events grounds
\* without a look at the message
GroundWithoutFactual(intent_analysis, message) ==
    IF intent_analysis.primary_intent = "current_events" THEN TRUE
    ELSE IF FoundIgnoreCase(always_ground_patterns, Lower(message)) > 0 THEN TRUE
    ELSE grounding_score(message) >= grounding_threshold

\* a variant of _should_use_grounding without the always_ground patterns
GroundByScoreOnly(intent_analysis, message) ==
    IF intent_analysis.primary_intent = "current_events" THEN TRUE
    ELSE IF intent_analysis.primary_intent = "factual_query" THEN TRUE
    ELSE grounding_score(message) >= grounding_threshold

_should_use_grounding(intent_analysis, message) ==
    IF intent_analysis.primary_intent = "current_events" THEN TRUE
    ELSE IF intent_analysis.primary_intent = "factual_query" THEN TRUE
    ELSE IF FoundIgnoreCase(always_ground_patterns, Lower(message)) > 0 THEN TRUE
    ELSE grounding_score(message) >= grounding_threshold

\* the records _should_use_grounding writes with logger.info: the decision
\* and the message, on the path that compares the score with the threshold
GroundingLogged(intent_analysis, message) ==
    IF intent_analysis.primary_intent = "current_events" THEN <<>>
    ELSE IF intent_analysis.primary_intent = "factual_query" THEN <<>>
    ELSE IF FoundIgnoreCase(always_ground_patterns, Lower(message)) > 0 THEN <<>>
    ELSE <<[level |-> "INFO", record |-> "Grounding decision"],
           [level |-> "INFO", record |-> "Message"]>>

(***************************************************************************)
(* AICore._post_process_response                                            *)
(***************************************************************************)
forbidden_starts == <<
    <<"t","e","n","t","u">>, <<"t","e","n","t","u","n","y","a">>, <<"s","u","r","e">>,
    <<"c","e","r","t","a","i","n","l","y">>,
    <<"p","o","r"," ","s","u","p","u","e","s","t","o">>,
    <<"b","i","e","n"," ","s","U+00FB","r">> >>

robot_emoji == "U+1F916"

\* text_lower.startswith(forbidden.lower()) for one of the forbidden openers
StartsAny(text_lower, openers) ==
    \E k \in 1..Len(openers) : StartsWith(text_lower, Lower(openers[k]))

\* text.lower().startswith(forbidden.lower()) for one of the forbidden openers
StartsForbidden(text) == StartsAny(Lower(text), forbidden_starts)

\* the text without its first sentence, when it has more than one
DropFirstSentence(text) ==
    LET sentences == SplitOn(text, ".") IN
    IF Len(sentences) > 1
    THEN LET rest == Strip(Join(Tail(sentences), <<".">>)) IN
         IF StartsWith(rest, <<".">>) THEN Strip(Tail(rest)) ELSE rest
    ELSE text

\* variant: the two sentences joined by the '.' alone
KeepTwoJoined(text) ==
    LET sentences == SplitOn(text, ".") IN
    IF Len(sentences) > 2
    THEN Join(SubSeq(sentences, 1, 2), <<".">>) \o <<".">>
    ELSE text

\* the first two sentences of a short answer
KeepTwoSentences(text) ==
    LET sentences == SplitOn(text, ".") IN
    IF Len(sentences) > 2
    THEN Join(SubSeq(sentences, 1, 2), <<".", " ">>) \o <<".">>
    ELSE text

\* the text after the loop over forbidden_starts
OpenedText(text) == IF StartsForbidden(text) THEN DropFirstSentence(text) ELSE text

\* text.replace(robot emoji, '') and ' '.join(text.split())
CleanedText(opened) == Join(Split(Remove(opened, robot_emoji)), <<" ">>)

\* the length step
LengthStep(cleaned, intent_analysis) ==
    IF intent_analysis.response_style.length = "short" THEN KeepTwoSentences(cleaned)
    ELSE cleaned

_post_process_response(text, intent_analysis) ==
    IF text = <<>> THEN text
    ELSE LengthStep(CleanedText(OpenedText(text)), intent_analysis)
(***************************************************************************)
(* The fixed texts of the handlers and of the core, as character sequences. *)
(***************************************************************************)
suggestions == <<
    \* "Gunakan /help untuk melihat bantuan lengkap"
    [command |-> "help", suggestion |->
        <<"G","u","n","a","k","a","n"," ","/","h","e","l","p"," ","u","n","t","u","k"," ","m","e",
          "l","i","h","a","t"," ","b","a","n","t","u","a","n"," ","l","e","n","g","k","a","p">>],
    \* "Gunakan /clearconversation untuk menghapus riwayat"
    [command |-> "clear_conversation", suggestion |->
        <<"G","u","n","a","k","a","n"," ","/","c","l","e","a","r","c","o","n","v","e","r","s","a",
          "t","i","o","n"," ","u","n","t","u","k"," ","m","e","n","g","h","a","p","u","s"," ","r",
          "i","w","a","y","a","t">>],
    \* "Gunakan /conversation untuk pengaturan percakapan"
    [command |-> "settings", suggestion |->
        <<"G","u","n","a","k","a","n"," ","/","c","o","n","v","e","r","s","a","t","i","o","n"," ",
          "u","n","t","u","k"," ","p","e","n","g","a","t","u","r","a","n"," ","p","e","r","c","a",
          "k","a","p","a","n">>] >>

\* "Maaf, terjadi kesalahan saat memproses permintaan Anda. Silakan coba lagi."
error_response ==
    <<"M","a","a","f",","," ","t","e","r","j","a","d","i"," ","k","e","s","a","l","a","h","a","n",
      " ","s","a","a","t"," ","m","e","m","p","r","o","s","e","s"," ","p","e","r","m","i","n","t",
      "a","a","n"," ","A","n","d","a","."," ","S","i","l","a","k","a","n"," ","c","o","b","a"," ",
      "l","a","g","i",".">>

\* "Fitur AI sedang tidak tersedia. Silakan coba lagi nanti."
offline_response ==
    <<"F","i","t","u","r"," ","A","I"," ","s","e","d","a","n","g"," ","t","i","d","a","k"," ","t",
      "e","r","s","e","d","i","a","."," ","S","i","l","a","k","a","n"," ","c","o","b","a"," ","l",
      "a","g","i"," ","n","a","n","t","i",".">>

\* "Maaf, fitur analisis gambar sedang tidak tersedia.  U+1F4F7  U+274C "
image_offline_response ==
    <<"M","a","a","f",","," ","f","i","t","u","r"," ","a","n","a","l","i","s","i","s"," ","g","a",
      "m","b","a","r"," ","s","e","d","a","n","g"," ","t","i","d","a","k"," ","t","e","r","s","e",
      "d","i","a","."," ","U+1F4F7","U+274C">>

\* " U+274C  Gagal mengunduh gambar. Pastikan gambar tidak terlalu besar dan coba lagi."
image_download_error ==
    <<"U+274C"," ","G","a","g","a","l"," ","m","e","n","g","u","n","d","u","h"," ","g","a","m",
      "b","a","r","."," ","P","a","s","t","i","k","a","n"," ","g","a","m","b","a","r"," ","t","i",
      "d","a","k"," ","t","e","r","l","a","l","u"," ","b","e","s","a","r"," ","d","a","n"," ","c",
      "o","b","a"," ","l","a","g","i",".">>

\* " U+274C  Format gambar tidak didukung atau gambar rusak. Coba dengan gambar format JPG, PNG, atau GIF."
image_format_error ==
    <<"U+274C"," ","F","o","r","m","a","t"," ","g","a","m","b","a","r"," ","t","i","d","a","k",
      " ","d","i","d","u","k","u","n","g"," ","a","t","a","u"," ","g","a","m","b","a","r"," ","r",
      "u","s","a","k","."," ","C","o","b","a"," ","d","e","n","g","a","n"," ","g","a","m","b","a",
      "r"," ","f","o","r","m","a","t"," ","J","P","G",","," ","P","N","G",","," ","a","t","a","u",
      " ","G","I","F",".">>

\* " U+274C  Maaf, gagal menganalisis gambar. Coba lagi dalam beberapa saat."
image_error_response ==
    <<"U+274C"," ","M","a","a","f",","," ","g","a","g","a","l"," ","m","e","n","g","a","n","a",
      "l","i","s","i","s"," ","g","a","m","b","a","r","."," ","C","o","b","a"," ","l","a","g","i",
      " ","d","a","l","a","m"," ","b","e","b","e","r","a","p","a"," ","s","a","a","t",".">>

\* "[Gambar tanpa caption]"
no_caption ==
    <<"[","G","a","m","b","a","r"," ","t","a","n","p","a"," ","c","a","p","t","i","o","n","]">>

\* "..."
ellipsis ==
    <<".",".",".">>

(***************************************************************************)
(* Prompt assembly.  A prompt is the sequence of the parts its f-string     *)
(* joins: Lit(s) for a fixed text of the source, Val(x) for an inserted     *)
(* name (a language, an intent, a first name), Text(t) for an inserted      *)
(* sequence of characters (a message, a reply).                             *)
(***************************************************************************)
Lit(s) == [lit |-> s]

Val(x) == [val |-> x]

Text(t) == [text |-> t]

\* AICore.lang_instructions (characters outside ASCII written as code points)
lang_instructions == <<
    [language |-> "indonesian", instruction |-> Lit("Respond in Bahasa Indonesia.")],
    [language |-> "english", instruction |-> Lit("Respond in English.")],
    [language |-> "spanish", instruction |-> Lit("Responde en EspaU+00F1ol.")],
    [language |-> "french", instruction |-> Lit("RU+00E9pondez en FranU+00E7ais.")],
    [language |-> "german", instruction |-> Lit("Antworten Sie auf Deutsch.")],
    [language |-> "japanese", instruction |->
        Lit("U+65E5 U+672C U+8A9E U+3067 U+8FD4 U+7B54 U+3057 U+3066 U+304F U+3060 U+3055 U+3044 U+3002")],
    [language |-> "korean", instruction |->
        Lit("U+D55C U+AD6D U+C5B4 U+B85C  U+B2F5 U+BCC0 U+D574 U+C8FC U+C138 U+C694 .")],
    [language |-> "chinese", instruction |->
        Lit("U+8BF7 U+7528 U+4E2D U+6587 U+56DE U+7B54 U+3002")],
    [language |-> "arabic", instruction |->
        Lit("U+0623 U+062C U+0628  U+0628 U+0627 U+0644 U+0644 U+063A U+0629  U+0627 U+0644 U+0639 U+0631 U+0628 U+064A U+0629 .")] >>

\* a variant of base_instruction without the fallback: no line for a language
\* that has no instruction
InstructionIfKnown(language) ==
    LET known == {k \in 1..Len(lang_instructions) : lang_instructions[k].language = language}
    IN  IF known # {} THEN lang_instructions[CHOOSE k \in known : TRUE].instruction
        ELSE Lit("")

\* self.lang_instructions.get(language, self.lang_instructions['indonesian'])
base_instruction(language) ==
    LET known == {k \in 1..Len(lang_instructions) : lang_instructions[k].language = language}
        fallback == CHOOSE k \in 1..Len(lang_instructions) :
                        lang_instructions[k].language = "indonesian"
    IN  IF known # {} THEN lang_instructions[CHOOSE k \in known : TRUE].instruction
        ELSE lang_instructions[fallback].instruction

length_instructions ==
    [short |-> Lit("Give a brief, direct answer in 1-2 sentences."),
     medium |-> Lit("Provide a clear, informative response in 2-4 sentences."),
     long |-> Lit("Give a comprehensive explanation with details and examples.")]

\* str.title() of the tones of _get_response_style
Title(tone) == IF tone = "friendly" THEN "Friendly" ELSE IF tone = "helpful" THEN "Helpful" ELSE tone

\* the line added for some intents
IntentDirective(intent) ==
    IF intent = "detailed_explanation"
    THEN <<Lit("\nPROVIDE DETAILED EXPLANATION with background context.")>>
    ELSE IF intent = "simple_question"
    THEN <<Lit("\nANSWER DIRECTLY and concisely.")>>
    ELSE IF intent = "urgent_help"
    THEN <<Lit("\nPRIORITIZE immediate, actionable assistance.")>>
    ELSE <<>>

get_response_prompt(intent_analysis, is_image) ==
    LET style == intent_analysis.response_style IN
       <<base_instruction(intent_analysis.language), Lit("\n\n"),
         Lit("RESPONSE STYLE:\n"),
         Lit("- Length: "), length_instructions[style.length], Lit("\n"),
         Lit("- Tone: "), Val(Title(style.tone)), Lit("\n")>>
    \o IntentDirective(intent_analysis.primary_intent)
    \o (IF is_image
        THEN <<Lit("\n\nFor image analysis: Provide a "), Val(style.length),
               Lit(" description focusing on relevant aspects.")>>
        ELSE <<>>)

\* the lines that name the user; user_context is None or [first_name, is_admin]
UserLine(user_context, with_admin) ==
    IF user_context = None THEN <<>>
    ELSE <<Lit("\nUser: "), Val(user_context.first_name)>>
         \o (IF with_admin /\ user_context.is_admin THEN <<Lit(" (Admin)")>> ELSE <<>>)

\* the head of the text prompt, up to the style prompt
SystemPreamble(intent_analysis) ==
    <<Lit("You are an intelligent AI assistant that adapts to user needs.\n\nINTENT ANALYSIS:\n- Language: "),
      Val(intent_analysis.language),
      Lit("\n- Intent: "), Val(intent_analysis.primary_intent),
      Lit("\n- Complexity: "), Val(intent_analysis.complexity),
      Lit("\n\nRULES:\n- NEVER start with \"Tentu\", \"Sure\", \"Certainly\" in any language\n- NEVER use robot emoji U+1F916\n- Use appropriate emoji that matches the topic\n- Be accurate and factual\n- ALWAYS respond in the detected language\n\n")>>

_build_system_prompt(intent_analysis, style_prompt, user_context) ==
    SystemPreamble(intent_analysis) \o style_prompt \o UserLine(user_context, TRUE)

\* the head of the image prompt, up to the style prompt
VisionPreamble(intent_analysis) ==
    <<Lit("You are an expert AI for image analysis.\n\nINTENT ANALYSIS:\n- Language: "),
      Val(intent_analysis.language),
      Lit("\n- Intent: "), Val(intent_analysis.primary_intent),
      Lit("\n\nRULES:\n- NEVER use \"Tentu\", \"Sure\", \"Certainly\" at the start\n- NEVER use robot emoji U+1F916\n- Identify objects, people, activities, and context\n- Use relevant emoji that match the image content\n- ALWAYS respond in the detected language\n\n")>>

_build_vision_system_prompt(intent_analysis, style_prompt, user_context) ==
    VisionPreamble(intent_analysis) \o style_prompt \o UserLine(user_context, FALSE)

history_window == 5

\* variant: conversation_history[:5], the oldest turns
FirstTurns(conversation_history) ==
    SubSeq(conversation_history, 1,
           IF Len(conversation_history) > history_window
           THEN history_window ELSE Len(conversation_history))

\* conversation_history[-5:]
LastTurns(conversation_history) ==
    SubSeq(conversation_history,
           IF Len(conversation_history) > history_window
           THEN Len(conversation_history) - history_window + 1 ELSE 1,
           Len(conversation_history))

RECURSIVE RenderTurns(_)
RenderTurns(turns) ==
    IF turns = <<>> THEN <<>>
    ELSE <<Lit("User: "), Text(Head(turns).message_text), Lit("\n"),
           Lit("Assistant: "), Text(Head(turns).response_text), Lit("\n\n")>>
         \o RenderTurns(Tail(turns))

_build_conversation_context(conversation_history) ==
    IF conversation_history = <<>> THEN <<>>
    ELSE <<Lit("\n\nPrevious Conversation:\n")>>
         \o RenderTurns(LastTurns(conversation_history))
         \o <<Lit("Use this context for relevant responses.")>>

grounding_instruction ==
    Lit("\nIMPORTANT: Use Google Search to find the most current, accurate, and up-to-date information for this query.\n- Prioritize recent information and real-time data\n- Verify facts with multiple sources when possible\n- Include specific details like dates, numbers, and proper nouns\n- If information is time-sensitive, mention when it was last updated\n")

\* the prompt of _generate_grounded_response
grounded_prompt(message, intent_analysis, user_context, conversation_history) ==
    _build_system_prompt(intent_analysis, get_response_prompt(intent_analysis, FALSE), user_context)
    \o <<Lit("\n"), grounding_instruction, Lit("\n")>>
    \o _build_conversation_context(conversation_history)
    \o <<Lit("\n\nUser Message: "), Text(message)>>

\* the prompt of _generate_standard_response
full_prompt(message, intent_analysis, user_context, conversation_history) ==
    _build_system_prompt(intent_analysis, get_response_prompt(intent_analysis, FALSE), user_context)
    \o _build_conversation_context(conversation_history)
    \o <<Lit("\n\nUser Message: "), Text(message)>>

\* the image analysis of a request without caption
image_default_intent ==
    [language |-> "indonesian", primary_intent |-> "general", complexity |-> "medium",
     response_style |-> [length |-> "medium", tone |-> "friendly", format |-> "paragraph"]]

\* the text part of the content of analyze_image
vision_prompt(caption, intent_analysis, user_context) ==
    _build_vision_system_prompt(intent_analysis, get_response_prompt(intent_analysis, TRUE),
                                user_context)
    \o <<Lit("\n\n")>>
    \o (IF caption # <<>> THEN <<Lit("User question: "), Text(caption)>>
        ELSE <<Lit("Analyze this image:")>>)

(***************************************************************************)
(* Database (src/database.py).  A table is the sequence of its rows in the  *)
(* order of insertion; the operations take the tables and the time they     *)
(* read and give the table they leave.  Str(t) is a text where None may     *)
(* stand as well.                                                           *)
(***************************************************************************)
Str(t) == [kind |-> "str", value |-> t]

\* the truth value Python gives an optional text: None and '' are falsy
Truthy(x) == x.kind = "str" /\ x.value # <<>>

Range(s) == {s[k] : k \in 1..Len(s)}

\* str.upper() on one character, and on a text
UpperChar(ch) ==
    IF \E u \in DOMAIN LowerMap : LowerMap[u] = ch
    THEN CHOOSE u \in DOMAIN LowerMap : LowerMap[u] = ch
    ELSE ch

Upper(s) == Tuple([i \in 1..Len(s) |-> UpperChar(s[i])])

\* f"[{file_type.upper()}] {file_name}: {message_text}" when there is a file_info
full_message(message_text, file_info) ==
    IF file_info = None THEN message_text
    ELSE <<"[">> \o Upper(file_info.type) \o <<"]", " ">> \o file_info.name
         \o <<":", " ">> \o message_text

\* variant: the lookup that finds no keyword
NoKeywordResponse(keywords_table, keyword) == None

\* Database.get_keyword_response: keywords maps the keyword of each row to
\* its response, usage_count and is_active
get_keyword_response(keywords_table, keyword) ==
    LET key == Lower(keyword) IN
    IF key \in DOMAIN keywords_table /\ keywords_table[key].is_active
    THEN Str(keywords_table[key].response)
    ELSE None

\* the UPDATE of get_keyword_response
KeywordUsed(keywords_table, keyword) ==
    LET key == Lower(keyword) IN
    IF key \in DOMAIN keywords_table /\ keywords_table[key].is_active
    THEN [keywords_table EXCEPT ![key].usage_count = @ + 1]
    ELSE keywords_table

\* Database.log_message: response_text is NOT NULL, the INSERT of a None
\* fails and is caught
log_message(history, now, user_id, message_text, response_text, message_type, file_info) ==
    IF response_text.kind # "str" THEN history
    ELSE Append(history, [user_id |-> user_id,
                          message_text |-> full_message(message_text, file_info),
                          response_text |-> response_text.value,
                          message_type |-> message_type,
                          timestamp |-> now])

\* variant: the count of the user left as it is
message_count_kept(users_table, user_id) == users_table

\* Database.increment_user_message_count
increment_user_message_count(users_table, user_id) ==
    IF user_id \in DOMAIN users_table
    THEN [users_table EXCEPT ![user_id].message_count = @ + 1]
    ELSE users_table

default_max_context == 10

\* Database.get_user_context_limit
get_user_context_limit(settings, user_id) ==
    IF user_id \in DOMAIN settings THEN settings[user_id].max_context_messages
    ELSE default_max_context

\* variant: the context taken as enabled whatever the stored row says
context_always_enabled(settings, user_id) == TRUE

\* Database.is_context_enabled
is_context_enabled(settings, user_id) ==
    IF user_id \in DOMAIN settings THEN settings[user_id].context_enabled ELSE TRUE

\* INSERT OR REPLACE of the row of one user
ReplaceRow(settings, user_id, row) ==
    [u \in DOMAIN settings \cup {user_id} |-> IF u = user_id THEN row ELSE settings[u]]

\* Database.set_user_context_settings
set_user_context_settings(settings, user_id, enabled, max_messages) ==
    ReplaceRow(settings, user_id,
               [context_enabled |-> enabled, max_context_messages |-> max_messages,
                last_context_clear |-> None])

\* ORDER BY timestamp ASC
OrderByTimestamp(rows) ==
    Tuple([k \in 1..Len(rows) |->
              CHOOSE r \in Range(rows) :
                  Cardinality({q \in Range(rows) : q.timestamp < r.timestamp}) = k - 1])

\* ORDER BY timestamp DESC
OrderByTimestampDesc(rows) ==
    LET asc == OrderByTimestamp(rows) IN
    Tuple([k \in 1..Len(asc) |-> asc[Len(asc) + 1 - k]])

\* LIMIT n (a negative n is no limit)
Limit(rows, n) ==
    IF n < 0 \/ n >= Len(rows) THEN rows ELSE SubSeq(rows, 1, n)

\* WHERE user_id = ?
RowsOf(context, user_id) == SelectSeq(context, LAMBDA row : row.user_id = user_id)

\* variant: the DELETE without its test of the user, keeping the newest rows
\* of the whole table
add_and_trim_all(context, settings, now, user_id, message_text, response_text, file_info) ==
    LET max_context == get_user_context_limit(settings, user_id)
        inserted == Append(context, [user_id |-> user_id,
                                     message_text |-> full_message(message_text, file_info),
                                     response_text |-> response_text,
                                     timestamp |-> now])
        newest == Range(Limit(OrderByTimestampDesc(inserted), max_context))
    IN  SelectSeq(inserted, LAMBDA row : row \in newest)

\* Database.add_conversation_message: the INSERT, then the DELETE of the
\* rows of the user that are not among the max_context newest
add_conversation_message(context, settings, now, user_id, message_text, response_text, file_info) ==
    LET max_context == get_user_context_limit(settings, user_id)
        inserted == Append(context, [user_id |-> user_id,
                                     message_text |-> full_message(message_text, file_info),
                                     response_text |-> response_text,
                                     timestamp |-> now])
        newest == Range(Limit(OrderByTimestampDesc(RowsOf(inserted, user_id)), max_context))
    IN  SelectSeq(inserted, LAMBDA row : row.user_id # user_id \/ row \in newest)

\* Database.get_conversation_context with the limit left out
get_conversation_context(context, settings, user_id) ==
    LET limit == get_user_context_limit(settings, user_id)
        rows == Limit(OrderByTimestamp(RowsOf(context, user_id)), limit)
    IN  Tuple([k \in 1..Len(rows) |->
                  [message_text |-> rows[k].message_text,
                   response_text |-> rows[k].response_text,
                   timestamp |-> rows[k].timestamp]])

\* Database.clear_conversation_context: the rows it leaves in conversation_context
ClearedContext(context, user_id) == SelectSeq(context, LAMBDA row : row.user_id # user_id)

\* Database.clear_conversation_context: its INSERT OR REPLACE names only
\* last_context_clear, the other columns take the defaults of the table
ClearedSettings(settings, now, user_id) ==
    ReplaceRow(settings, user_id,
               [context_enabled |-> TRUE, max_context_messages |-> default_max_context,
                last_context_clear |-> [kind |-> "time", at |-> now]])

(***************************************************************************)
(* The state.                                                               *)
(***************************************************************************)
VARIABLES
    GEMINI_ENABLED,              \* config.GEMINI_ENABLED
    text_model,                  \* AICore.text_model: TRUE for a model, FALSE for None
    vision_model,                \* AICore.vision_model
    grounding_client,            \* AICore.grounding_client
    keywords,                    \* table keywords
    users,                       \* table users: the registered users
    message_history,             \* table message_history
    conversation_context,        \* table conversation_context
    user_conversation_settings,  \* table user_conversation_settings
    clock,                       \* datetime.now(), read by the INSERTs
    call,                        \* the handler that runs and its call of the core
    input,                       \* the argument of the function a step applies
    output                       \* what the function returned

config == <<GEMINI_ENABLED, text_model, vision_model, grounding_client>>

database == <<keywords, users, message_history, conversation_context,
              user_conversation_settings, clock>>

vars == <<config, database, call, input, output>>

(***************************************************************************)
(* Bounds and the inputs of the handlers.                                   *)
(***************************************************************************)
MaxUsers == 1

Users == 1..MaxUsers

\* the handlers take updates while the clock is below MaxClock
MaxClock == 2

\* the user_id of a request of the HTTP API that names none
NoUser == 0

\* the texts users send, and the captions of their photos
TextList == <<
    <<>>,
    <<"/">>,
    <<"/","h","e","l","p">>,
    <<"h","e","l","p"," ","b","o","t">>,
    <<"b","a","n","t","u","a","n">>,
    <<"h","a","l","o">>,
    <<"h","a","r","g","a"," ","e","m","a","s">>,
    <<"p","i","n","g">>,
    <<"a","p","a"," ","i","n","i","?">> >>

Messages == {TextList[k] : k \in 1..8}

Captions == {TextList[1], TextList[9]}

\* filters.TEXT & ~filters.COMMAND: a text that does not start with a bot
\* command, "/" and a letter, digit or "_"
TelegramTexts ==
    {m \in Messages : m # <<>> /\ ~(Len(m) >= 2 /\ m[1] = "/" /\ IsWord(m[2]))}

reply_cap == 10000

reply_keep == 9970

image_cap == 4000

image_keep == 3970

\* n times the character ch
Repeat(ch, n) == Tuple([i \in 1..n |-> ch])

\* what generate_content gives: an exception, or a response with its text
\* (<<>> for a text that is missing or empty)
Raise == [kind |-> "raise", text |-> <<>>]

Response(text) == [kind |-> "response", text |-> text]

ModelReplies ==
    {Raise, Response(<<>>), Response(<<" ","T","e","n","t","u","."," ","o","k"," ","U","+","1","F",
        "9","1","6">>),
     Response(Repeat("x", reply_cap)), Response(Repeat("x", reply_cap + 1))}

VisionReplies ==
    {Raise, Response(<<>>), Response(<<"k","u","c","i","n","g">>),
     Response(Repeat("x", image_cap)), Response(Repeat("x", image_cap + 1))}

NoCall ==
    [pc |-> "idle", handler |-> "", user_id |-> NoUser, message |-> <<>>,
     user_context |-> None, conversation_history |-> <<>>,
     command_info |-> None, intent_analysis |-> None, use_grounding |-> FALSE,
     grounded_reply |-> Raise, standard_reply |-> Raise,
     calls |-> <<>>, state |-> "", result |-> None, reply |-> None]

(***************************************************************************)
(* AICore.generate_response and the two generation paths.                   *)
(***************************************************************************)
\* detect_command, analyze_intent and _should_use_grounding on each text of
\* TextList, evaluated once
Analysed ==
    Tuple([k \in 1..Len(TextList) |->
        LET intent_analysis == analyze_intent(TextList[k], "") IN
        [command_info |-> detect_command(TextList[k]),
         intent_analysis |-> intent_analysis,
         use_grounding |-> _should_use_grounding(intent_analysis, TextList[k])]])

AnalysisOf(text) == Analysed[CHOOSE k \in 1..Len(TextList) : TextList[k] = text]

\* suggestions.get(command)
Suggestion(command) ==
    LET known == {k \in 1..Len(suggestions) : suggestions[k].command = command} IN
    IF known = {} THEN None ELSE Str(suggestions[CHOOSE k \in known : TRUE].suggestion)

\* response.text.strip() if response and response.text else None, then
\* self._post_process_response(generated_text, intent_analysis) if generated_text else None
Generated(reply, intent_analysis) ==
    LET generated_text == Strip(reply.text) IN
    IF reply.text # <<>> /\ generated_text # <<>>
    THEN Str(_post_process_response(generated_text, intent_analysis))
    ELSE None

Returns(state, result) ==
    call' = [call EXCEPT !.pc = "Returned", !.state = state, !.result = result]

\* a variant of Suggested that takes a detection from confidence 0.5 on
SuggestedFromHalf(command_info) ==
    /\ command_info.kind = "Detection"
    /\ ~RatLt(command_info.confidence, Rat(5, 10))
    /\ Suggestion(command_info.command) # None

\* a variant of ExceptReturnsNone that lets the exception reach the caller
Reraised(exc) == Returns("Raised", Raised(exc))

\* except Exception as e: logger.error(...); return None
ExceptReturnsNone(exc) == Returns("Failed", None)

\* command_info and command_info['confidence'] > 0.6, and a suggestion for it
Suggested(command_info) ==
    /\ command_info.kind = "Detection"
    /\ RatLt(Rat(6, 10), command_info.confidence)
    /\ Suggestion(command_info.command) # None

\* the try block of generate_response up to the choice of the generation
\* path; the replies the provider gives to the calls of this invocation are
\* drawn here: the one of the grounding client on the grounded path, and the
\* one of the text model where the grounded call brings no text
Decide(analysis) ==
    IF analysis.command_info.kind = "Raised" THEN ExceptReturnsNone(analysis.command_info.exc)
    ELSE IF Suggested(analysis.command_info)
    THEN call' = [call EXCEPT !.pc = "Returned", !.state = "CommandReply",
                              !.command_info = analysis.command_info,
                              !.result = Suggestion(analysis.command_info.command)]
    ELSE \E grounded_reply \in ModelReplies, standard_reply \in ModelReplies :
            /\ (analysis.use_grounding /\ grounding_client) \/ grounded_reply = Raise
            /\ grounded_reply.text = <<>> \/ standard_reply = Raise
            /\ call' = [call EXCEPT
                  !.pc = IF analysis.use_grounding /\ grounding_client
                         THEN "GroundedGeneration" ELSE "StandardGeneration",
                  !.command_info = analysis.command_info,
                  !.intent_analysis = analysis.intent_analysis,
                  !.use_grounding = analysis.use_grounding,
                  !.grounded_reply = grounded_reply,
                  !.standard_reply = standard_reply]

generate_response ==
    /\ call.pc = "ReceivedMessage"
    /\ IF ~text_model THEN Returns("Failed", None) ELSE Decide(AnalysisOf(call.message))
    /\ UNCHANGED <<config, database, input, output>>

\* a variant of _generate_grounded_response that goes on to the standard path
\* after every grounded call
GroundedThenStandard ==
    /\ call.pc = "GroundedGeneration"
    /\ call' = [call EXCEPT !.calls = Append(@, "grounded"), !.pc = "StandardGeneration"]
    /\ UNCHANGED <<config, database, input, output>>

\* _generate_grounded_response: the call of the grounding client; an
\* exception falls back to the standard path
_generate_grounded_response ==
    /\ call.pc = "GroundedGeneration"
    /\ LET called == [call EXCEPT !.calls = Append(@, "grounded")] IN
       IF call.grounded_reply.kind = "raise"
       THEN call' = [called EXCEPT !.pc = "StandardGeneration"]
       ELSE LET result == Generated(call.grounded_reply, call.intent_analysis) IN
            call' = [called EXCEPT !.pc = "Returned",
                                   !.state = IF result = None THEN "Failed" ELSE "PostProcessed",
                                   !.result = result]
    /\ UNCHANGED <<config, database, input, output>>

\* _generate_standard_response: the call of the text model
_generate_standard_response ==
    /\ call.pc = "StandardGeneration"
    /\ LET called == [call EXCEPT !.calls = Append(@, "standard")]
           result == IF call.standard_reply.kind = "raise" THEN None
                     ELSE Generated(call.standard_reply, call.intent_analysis)
       IN  call' = [called EXCEPT !.pc = "Returned",
                                  !.state = IF result = None THEN "Failed" ELSE "PostProcessed",
                                  !.result = result]
    /\ UNCHANGED <<config, database, input, output>>

(***************************************************************************)
(* bot.handle_message (src/bot.py).                                         *)
(***************************************************************************)
\* the first names Telegram reports, and is_admin(user_id): user 1 is the admin
user_info(user_id) ==
    [first_name |-> IF user_id = 1 THEN "Ani" ELSE "Budi", is_admin |-> user_id = 1]

Replied(handler, user_id, message, reply) ==
    call' = [NoCall EXCEPT !.pc = "Replied", !.handler = handler, !.user_id = user_id,
                           !.message = message, !.reply = reply]

\* handle_message up to the call of the core: the keyword reply, the offline
\* notice, or the call
handle_message(user_id, raw) ==
    LET text == Strip(raw)
        response == get_keyword_response(keywords, Lower(text))
    IN
    /\ call.pc = "idle"
    /\ clock < MaxClock
    /\ user_id \in DOMAIN users
    /\ keywords' = KeywordUsed(keywords, Lower(text))
    /\ IF Truthy(response)
       THEN /\ Replied("handle_message", user_id, text, response)
            /\ message_history' =
                  log_message(message_history, clock, user_id, text, response, "normal", None)
            /\ users' = increment_user_message_count(users, user_id)
            /\ clock' = clock + 1
       ELSE IF GEMINI_ENABLED /\ text_model
       THEN /\ call' = [NoCall EXCEPT
                  !.pc = "ReceivedMessage", !.handler = "handle_message",
                  !.user_id = user_id, !.message = text,
                  !.user_context = user_info(user_id),
                  !.conversation_history =
                      IF is_context_enabled(user_conversation_settings, user_id)
                      THEN get_conversation_context(conversation_context,
                                                    user_conversation_settings, user_id)
                      ELSE <<>>]
            /\ UNCHANGED <<users, message_history, clock>>
       ELSE /\ Replied("handle_message", user_id, text, Str(offline_response))
            /\ message_history' =
                  log_message(message_history, clock, user_id, text, Str(offline_response),
                              "normal", None)
            /\ users' = increment_user_message_count(users, user_id)
            /\ clock' = clock + 1
    /\ UNCHANGED <<config, conversation_context, user_conversation_settings, input, output>>

\* ai_response[:9970] + "..." when len(ai_response) > 10000
Truncated(response, cap, keep) ==
    IF Len(response) > cap THEN SubSeq(response, 1, keep) \o ellipsis ELSE response

\* handle_message after the call of the core: the reply, the log and the
\* conversation context
handle_message_reply ==
    /\ call.pc = "Returned"
    /\ call.handler = "handle_message"
    /\ IF Truthy(call.result)
       THEN LET ai_response == Truncated(call.result.value, reply_cap, reply_keep) IN
            /\ call' = [call EXCEPT !.pc = "Replied", !.reply = Str(ai_response)]
            /\ message_history' = log_message(message_history, clock, call.user_id,
                                              call.message, Str(ai_response), "ai", None)
            /\ IF is_context_enabled(user_conversation_settings, call.user_id)
               THEN /\ conversation_context' =
                          add_conversation_message(conversation_context,
                              user_conversation_settings, clock + 1, call.user_id,
                              call.message, ai_response, None)
                    /\ clock' = clock + 2
               ELSE /\ UNCHANGED conversation_context
                    /\ clock' = clock + 1
       ELSE /\ call' = [call EXCEPT !.pc = "Replied", !.reply = Str(error_response)]
            /\ message_history' = log_message(message_history, clock, call.user_id,
                                              call.message, Str(error_response), "normal", None)
            /\ clock' = clock + 1
            /\ UNCHANGED conversation_context
    /\ users' = increment_user_message_count(users, call.user_id)
    /\ UNCHANGED <<config, keywords, user_conversation_settings, input, output>>

(***************************************************************************)
(* The /chat endpoint (src/ai_http_api.py).                                 *)
(***************************************************************************)
\* "No message provided", with status 400
no_message_error == Str(<<"N","o"," ","m","e","s","s","a","g","e"," ","p","r","o","v","i","d","e",
    "d">>)

\* chat up to the call of the core
chat(user_id, message) ==
    LET keyword_response == get_keyword_response(keywords, message) IN
    /\ call.pc = "idle"
    /\ clock < MaxClock
    /\ IF message = <<>>
       THEN /\ Replied("chat", user_id, message, no_message_error)
            /\ UNCHANGED <<keywords, message_history, clock>>
       ELSE IF Truthy(keyword_response)
       THEN /\ Replied("chat", user_id, message, keyword_response)
            /\ keywords' = KeywordUsed(keywords, message)
            /\ IF user_id # NoUser
               THEN /\ message_history' = log_message(message_history, clock, user_id,
                                                      message, keyword_response, "keyword", None)
                    /\ clock' = clock + 1
               ELSE UNCHANGED <<message_history, clock>>
       ELSE /\ call' = [NoCall EXCEPT !.pc = "ReceivedMessage", !.handler = "chat",
                                      !.user_id = user_id, !.message = message]
            /\ keywords' = KeywordUsed(keywords, message)
            /\ UNCHANGED <<message_history, clock>>
    /\ UNCHANGED <<config, users, conversation_context, user_conversation_settings,
                   input, output>>

\* chat after the call of the core: the log, and the response as the core
\* returned it
chat_return ==
    /\ call.pc = "Returned"
    /\ call.handler = "chat"
    /\ call' = [call EXCEPT !.pc = "Replied", !.reply = call.result]
    /\ IF call.user_id # NoUser
       THEN /\ message_history' = log_message(message_history, clock, call.user_id,
                                              call.message, call.result, "ai", None)
            /\ clock' = clock + 1
       ELSE UNCHANGED <<message_history, clock>>
    /\ UNCHANGED <<config, keywords, users, conversation_context,
                   user_conversation_settings, input, output>>

\* the handler returns; time passes before the next update
handler_returns ==
    /\ call.pc = "Replied"
    /\ call' = NoCall
    /\ clock' = clock + 1
    /\ UNCHANGED <<config, keywords, users, message_history, conversation_context,
                   user_conversation_settings, input, output>>

(***************************************************************************)
(* bot.handle_image and AICore.analyze_image.                               *)
(***************************************************************************)
\* f"photo_{photo.file_unique_id}.jpg"
photo_name == <<"p","h","o","t","o","_","1",".","j","p","g">>

\* image bytes: whether PIL can open them, and the mode of the picture
ImageData(decodes, mode) == [decodes |-> decodes, mode |-> mode]

\* the JPEG validate_and_process_image gives to handle_image
processed_image == ImageData(TRUE, "RGB")

\* AICore._process_image: the picture in mode RGB, None for bytes that Image.open
\* or the conversion rejects (except Exception: return None)
_process_image(image_data) ==
    IF image_data.decodes THEN [kind |-> "image", mode |-> "RGB"] ELSE None

\* a variant of ImageRejected that lets every result of _process_image pass
ImageAccepted(image) == FALSE

\* if not image: return None
ImageRejected(image) == image = None

\* AICore.analyze_image: reply is what vision_model.generate_content gives;
\* the result, and the model calls made
analyze_image(model, image_data, caption, reply) ==
    IF ~model THEN [result |-> None, calls |-> <<>>]
    ELSE IF ImageRejected(_process_image(image_data)) THEN [result |-> None, calls |-> <<>>]
    ELSE LET intent_analysis == IF caption # <<>> THEN AnalysisOf(caption).intent_analysis
                                ELSE image_default_intent
         IN  [result |-> IF reply.kind = "raise" THEN None
                         ELSE Generated(reply, intent_analysis),
              calls |-> <<"vision">>]

\* what download_image and validate_and_process_image give
ImageOutcomes == {"download failed", "not an image", "processed"}

\* handle_image for a photo
handle_image(user_id, caption, outcome, reply) ==
    LET file_info == [type |-> <<"i","m","a","g","e">>, name |-> photo_name]
        message_text == IF caption # <<>> THEN caption ELSE no_caption
        analysis == analyze_image(vision_model, processed_image, caption, reply).result
        Failure(response) ==
            /\ Replied("handle_image", user_id, caption, Str(response))
            /\ message_history' = log_message(message_history, clock, user_id, message_text,
                                              Str(response), "image", file_info)
            /\ clock' = clock + 1
            /\ UNCHANGED <<users, conversation_context>>
    IN
    /\ call.pc = "idle"
    /\ clock < MaxClock
    /\ user_id \in DOMAIN users
    /\ IF ~(GEMINI_ENABLED /\ vision_model) THEN Failure(image_offline_response)
       ELSE IF outcome = "download failed" THEN Failure(image_download_error)
       ELSE IF outcome = "not an image" THEN Failure(image_format_error)
       ELSE IF Truthy(analysis)
       THEN LET text == Truncated(analysis.value, image_cap, image_keep) IN
            /\ call' = [NoCall EXCEPT !.pc = "Replied", !.handler = "handle_image",
                          !.user_id = user_id, !.message = caption,
                          !.calls = <<"vision">>, !.standard_reply = reply,
                          !.state = "PostProcessed", !.result = analysis,
                          !.reply = Str(text)]
            /\ message_history' = log_message(message_history, clock, user_id, message_text,
                                              Str(text), "image", file_info)
            /\ IF is_context_enabled(user_conversation_settings, user_id)
               THEN /\ conversation_context' =
                          add_conversation_message(conversation_context,
                              user_conversation_settings, clock + 1, user_id,
                              message_text, text, file_info)
                    /\ clock' = clock + 2
               ELSE /\ UNCHANGED conversation_context
                    /\ clock' = clock + 1
            /\ users' = increment_user_message_count(users, user_id)
       ELSE /\ call' = [NoCall EXCEPT !.pc = "Replied", !.handler = "handle_image",
                          !.user_id = user_id, !.message = caption,
                          !.calls = <<"vision">>, !.standard_reply = reply,
                          !.state = "Failed", !.reply = Str(image_error_response)]
            /\ message_history' = log_message(message_history, clock, user_id, message_text,
                                              Str(image_error_response), "image", file_info)
            /\ clock' = clock + 1
            /\ users' = increment_user_message_count(users, user_id)
            /\ UNCHANGED conversation_context
    /\ UNCHANGED <<config, keywords, user_conversation_settings, input, output>>

(***************************************************************************)
(* bot.conversation_settings and bot.clear_conversation.                    *)
(***************************************************************************)
\* the limits a user asks for: conversation_settings takes 1 to 50
min_limit == 1

max_limit == 50

Limits == {0, 1, 2, 51}

SettingsArgs ==
    {[command |-> "on", limit |-> 0], [command |-> "off", limit |-> 0]}
    \cup {[command |-> "limit", limit |-> n] : n \in Limits}

\* conversation_settings with arguments ("on", "off" or "limit <n>")
conversation_settings(user_id, args) ==
    /\ call.pc = "idle"
    /\ clock < MaxClock
    /\ user_id \in DOMAIN users
    /\ user_conversation_settings' =
          IF args.command = "on"
          THEN set_user_context_settings(user_conversation_settings, user_id, TRUE,
                                         default_max_context)
          ELSE IF args.command = "off"
          THEN set_user_context_settings(user_conversation_settings, user_id, FALSE,
                                         default_max_context)
          ELSE IF args.limit < min_limit \/ args.limit > max_limit
          THEN user_conversation_settings
          ELSE set_user_context_settings(user_conversation_settings, user_id,
                  is_context_enabled(user_conversation_settings, user_id), args.limit)
    /\ Replied("conversation_settings", user_id, <<>>, None)
    /\ UNCHANGED <<config, keywords, users, message_history, conversation_context, clock,
                   input, output>>

\* clear_conversation
clear_conversation(user_id) ==
    /\ call.pc = "idle"
    /\ clock < MaxClock
    /\ user_id \in DOMAIN users
    /\ conversation_context' = ClearedContext(conversation_context, user_id)
    /\ user_conversation_settings' =
          ClearedSettings(user_conversation_settings, clock, user_id)
    /\ clock' = clock + 1
    /\ Replied("clear_conversation", user_id, <<>>, None)
    /\ UNCHANGED <<config, keywords, users, message_history, input, output>>

(***************************************************************************)
(* The bot and the HTTP API over one database.                              *)
(***************************************************************************)
\* AICore._initialize_models: the three handles are set together, or all
\* stay None
Configured(ok) ==
    /\ text_model = ok
    /\ vision_model = ok
    /\ grounding_client = ok

\* the tables after init_database, the users registered, one keyword added
InitDatabase ==
    /\ keywords = (<<"p","i","n","g">> :> [response |-> <<"p","o","n",
        "g">>, usage_count |-> 0, is_active |-> TRUE])
    /\ users = [u \in Users |-> [message_count |-> 0]]
    /\ message_history = <<>>
    /\ conversation_context = <<>>
    /\ user_conversation_settings = <<>>
    /\ clock = 0

Init ==
    /\ GEMINI_ENABLED \in BOOLEAN
    /\ \E ok \in BOOLEAN : Configured(ok)
    /\ InitDatabase
    /\ call = NoCall
    /\ input = None
    /\ output = None

\* the updates of Telegram and the requests of the HTTP API
Receive ==
    \/ \E user_id \in Users, text \in TelegramTexts : handle_message(user_id, text)
    \/ \E user_id \in Users \cup {NoUser}, message \in Messages : chat(user_id, message)
    \/ \E user_id \in Users, caption \in Captions, outcome \in ImageOutcomes,
          reply \in VisionReplies : handle_image(user_id, caption, outcome, reply)
    \/ \E user_id \in Users, args \in SettingsArgs : conversation_settings(user_id, args)
    \/ \E user_id \in Users : clear_conversation(user_id)

Next ==
    \/ Receive
    \/ generate_response
    \/ _generate_grounded_response
    \/ _generate_standard_response
    \/ handle_message_reply
    \/ chat_return
    \/ handler_returns

Spec == Init /\ [][Next]_vars

(***************************************************************************)
(* The conversation store by itself: the calls of the Database API in any   *)
(* order (SpecStore).  output holds what the last get_conversation_context  *)
(* returned, while the tables are as it read them.                          *)
(***************************************************************************)
\* the calls are made while the clock is below MaxStoreClock
MaxStoreClock == 4

\* the limits set_user_context_settings is called with
StoreLimits == {1, 2, default_max_context}

Parked ==
    /\ GEMINI_ENABLED = TRUE
    /\ Configured(TRUE)
    /\ call = NoCall

InitStore ==
    /\ Parked
    /\ InitDatabase
    /\ input = None
    /\ output = None

\* db.add_conversation_message(user_id, message_text, response_text)
StoreAdd(user_id) ==
    /\ clock < MaxStoreClock
    /\ conversation_context' =
          add_conversation_message(conversation_context, user_conversation_settings, clock,
                                   user_id, <<"h","a","l","o">>, <<"h","a","i">>, None)
    /\ clock' = clock + 1
    /\ output' = None
    /\ UNCHANGED <<config, keywords, users, message_history, user_conversation_settings,
                   call, input>>

\* db.set_user_context_settings(user_id, enabled, max_messages)
StoreSet(user_id, enabled, max_messages) ==
    /\ user_conversation_settings' =
          set_user_context_settings(user_conversation_settings, user_id, enabled, max_messages)
    /\ output' = None
    /\ UNCHANGED <<config, keywords, users, message_history, conversation_context, clock,
                   call, input>>

\* db.clear_conversation_context(user_id)
StoreClear(user_id) ==
    /\ clock < MaxStoreClock
    /\ conversation_context' = ClearedContext(conversation_context, user_id)
    /\ user_conversation_settings' =
          ClearedSettings(user_conversation_settings, clock, user_id)
    /\ clock' = clock + 1
    /\ output' = None
    /\ UNCHANGED <<config, keywords, users, message_history, call, input>>

\* db.get_conversation_context(user_id)
StoreGet(user_id) ==
    /\ output' = [kind |-> "turns", user_id |-> user_id,
                  turns |-> get_conversation_context(conversation_context,
                                                     user_conversation_settings, user_id)]
    /\ UNCHANGED <<config, database, call, input>>

\* the user ids the calls are made with (the tables of the conversation
\* store take any id: sqlite does not enforce their FOREIGN KEY)
StoreUsers == {1, 2}

NextStore ==
    \/ \E user_id \in StoreUsers : StoreAdd(user_id)
    \/ \E user_id \in StoreUsers, enabled \in BOOLEAN, max_messages \in StoreLimits :
          StoreSet(user_id, enabled, max_messages)
    \/ \E user_id \in StoreUsers : StoreClear(user_id)
    \/ \E user_id \in StoreUsers : StoreGet(user_id)

SpecStore == InitStore /\ [][NextStore]_vars

(***************************************************************************)
(* The pure functions of the core, each applied to the inputs of a bounded  *)
(* set: input is the argument, output the value returned.                   *)
(***************************************************************************)
ParkedDatabase ==
    /\ Parked
    /\ InitDatabase

(* _post_process_response, applied once and then to its own result (SpecPost) *)

\* the pieces the texts are made of, and how many a text has at most
Pieces == <<<<"s","u","r","e">>, <<"T","e","n","t","u">>, <<"o",
    "k">>, <<".">>, <<" ">>, <<robot_emoji>>>>

MaxPieces == 3

RECURSIVE Concat(_)
Concat(parts) == IF parts = <<>> THEN <<>> ELSE Head(parts) \o Concat(Tail(parts))

PieceTexts ==
    UNION {{Concat([i \in 1..n |-> Pieces[choice[i]]]) :
                choice \in [1..n -> 1..Len(Pieces)]} : n \in 1..MaxPieces}

Lengths == {"short", "medium"}

StyleOf(length) ==
    [response_style |-> [length |-> length, tone |-> "friendly", format |-> "paragraph"]]

InitPost ==
    /\ ParkedDatabase
    /\ input \in {[text |-> text, length |-> length] : text \in PieceTexts, length \in Lengths}
    /\ output = [passes |-> 0, first |-> <<>>, text |-> <<>>]

post_process ==
    /\ output.passes = 0
    /\ output' = [passes |-> 1, first |-> <<>>,
                  text |-> _post_process_response(input.text, StyleOf(input.length))]
    /\ UNCHANGED <<config, database, call, input>>

post_process_again ==
    /\ output.passes = 1
    /\ output' = [passes |-> 2, first |-> output.text,
                  text |-> _post_process_response(output.text, StyleOf(input.length))]
    /\ UNCHANGED <<config, database, call, input>>

NextPost ==
    \/ post_process
    \/ post_process_again

SpecPost == InitPost /\ [][NextPost]_vars

(* detect_language on the keywords of each language, repeated (SpecLang) *)

\* the most a keyword is repeated
MaxReps == 11

\* the text of n times the words, separated by single spaces
RECURSIVE Repeated(_, _)
Repeated(words, n) == IF n = 1 THEN words ELSE words \o <<" ">> \o Repeated(words, n - 1)

\* the numbers of repetitions tried: once, twice and MaxReps times
Repetitions == {1, 2, MaxReps}

KeywordInputs ==
    UNION {{[language |-> LANGUAGE_PATTERNS[l].lang, keyword |-> LANGUAGE_PATTERNS[l].keywords[k],
             repetitions |-> n] :
                k \in 1..Len(LANGUAGE_PATTERNS[l].keywords), n \in Repetitions} :
           l \in 1..Len(LANGUAGE_PATTERNS)}

InitLang ==
    /\ ParkedDatabase
    /\ input \in KeywordInputs
    /\ output = None

detect_language_call ==
    /\ output = None
    /\ output' = [kind |-> "detected",
                  result |-> detect_language(Repeated(input.keyword, input.repetitions))]
    /\ UNCHANGED <<config, database, call, input>>

NextLang == detect_language_call

SpecLang == InitLang /\ [][NextLang]_vars

(* detect_command and analyze_intent on empty and degenerate texts (SpecCommand) *)

\* the pieces of the texts: whitespace, the command prefix, a word
CommandPieces == <<<<" ">>, <<"/">>, <<"h","e","l","p">>>>

MaxCommandPieces == 4

CommandTexts ==
    {<<>>} \cup
    UNION {{Concat([i \in 1..n |-> CommandPieces[choice[i]]]) :
                choice \in [1..n -> 1..Len(CommandPieces)]} : n \in 1..MaxCommandPieces}

InitCommand ==
    /\ ParkedDatabase
    /\ input \in CommandTexts
    /\ output = None

detect_command_call ==
    /\ output = None
    /\ output' = [kind |-> "detect_command", result |-> detect_command(input)]
    /\ UNCHANGED <<config, database, call, input>>

analyze_intent_call ==
    /\ output = None
    /\ output' = [kind |-> "analyze_intent", result |-> analyze_intent(input, "")]
    /\ UNCHANGED <<config, database, call, input>>

NextCommand ==
    \/ detect_command_call
    \/ analyze_intent_call

SpecCommand == InitCommand /\ [][NextCommand]_vars

(* the prompts of the three model calls (SpecPrompt) *)

\* the languages of lang_instructions, and one that has no instruction
PromptLanguages ==
    {lang_instructions[k].language : k \in 1..Len(lang_instructions)} \cup {"klingon"}

PromptIntents == {"general", "simple_question", "detailed_explanation", "urgent_help"}

Complexities == {"low", "medium", "high"}

IntentAnalyses ==
    {[language |-> language, primary_intent |-> intent, complexity |-> complexity,
      response_style |-> _get_response_style(intent, complexity)] :
        language \in PromptLanguages, intent \in PromptIntents, complexity \in Complexities}

\* the turns of a conversation history of n turns
Turns(n) ==
    Tuple([k \in 1..n |-> [message_text |-> <<"h","a","l","o">>, response_text |-> <<"h","a","i">>,
                           timestamp |-> k]])

MaxHistory == 1

PromptInputs ==
    {[intent_analysis |-> intent_analysis, user_context |-> user_context,
      conversation_history |-> Turns(n), message |-> message] :
        intent_analysis \in IntentAnalyses,
        user_context \in {None} \cup {user_info(u) : u \in Users},
        n \in 0..MaxHistory,
        message \in Captions}

InitPrompt ==
    /\ ParkedDatabase
    /\ input \in PromptInputs
    /\ output = None

\* a prompt as it goes to the model, with the style block it was built from
Assembled(path, style_prompt, prompt) ==
    [kind |-> "prompt", path |-> path, style_prompt |-> style_prompt, prompt |-> prompt]

\* the prompt _generate_standard_response sends
standard_prompt_built ==
    /\ output = None
    /\ output' = Assembled("standard", get_response_prompt(input.intent_analysis, FALSE),
                     full_prompt(input.message, input.intent_analysis, input.user_context,
                                 input.conversation_history))
    /\ UNCHANGED <<config, database, call, input>>

\* the prompt _generate_grounded_response sends
grounded_prompt_built ==
    /\ output = None
    /\ output' = Assembled("grounded", get_response_prompt(input.intent_analysis, FALSE),
                     grounded_prompt(input.message, input.intent_analysis, input.user_context,
                                     input.conversation_history))
    /\ UNCHANGED <<config, database, call, input>>

\* the text analyze_image sends with the image
vision_prompt_built ==
    /\ output = None
    /\ output' = Assembled("vision", get_response_prompt(input.intent_analysis, TRUE),
                     vision_prompt(input.message, input.intent_analysis, input.user_context))
    /\ UNCHANGED <<config, database, call, input>>

NextPrompt ==
    \/ standard_prompt_built
    \/ grounded_prompt_built
    \/ vision_prompt_built

SpecPrompt == InitPrompt /\ [][NextPrompt]_vars

(* analyze_image on bytes that decode and bytes that do not (SpecImage) *)

ImageModes == {"RGB", "RGBA", "P"}

ImageInputs ==
    {[model |-> model, image_data |-> ImageData(decodes, mode), caption |-> caption,
      reply |-> reply] :
        model \in BOOLEAN, decodes \in BOOLEAN, mode \in ImageModes,
        caption \in Captions, reply \in VisionReplies}

InitImage ==
    /\ ParkedDatabase
    /\ input \in ImageInputs
    /\ output = None

analyze_image_call ==
    /\ output = None
    /\ output' = [kind |-> "analyze_image",
                  outcome |-> analyze_image(input.model, input.image_data, input.caption,
                                            input.reply)]
    /\ UNCHANGED <<config, database, call, input>>

NextImage == analyze_image_call

SpecImage == InitImage /\ [][NextImage]_vars

(* _should_use_grounding on an intent and a message (SpecGround) *)

\* messages that score below, at and above the threshold
GroundBases ==
    {<<>>, <<"h","a","l","o">>, <<"H","a","l","o">>, <<"s","e","j","a","r","a","h">>, <<"s","e","j",
        "a","r","a","h"," ","b","u","d","a","y","a">>, <<"v","s">>, <<"H","a","l","o"," ","7">>,
     <<"b","e","n","a","r">>}

\* nothing, or a phrase one of the always_ground patterns matches
GroundAdditions ==
    {<<>>, <<"l","i","v","e">>, <<"r","e","a","l","-","t","i","m","e">>, <<"u","p","d","a","t",
        "e">>, <<"i","n","f","o"," ","t","e","r","b","a","r","u">>, <<"s","t","a","t","u","s"," ",
        "t","e","r","k","i","n","i">>,
     <<"h","a","r","g","a"," ","h","a","r","i"," ","i","n","i">>, <<"p","r","i","c","e"," ","n","o",
         "w">>}

GroundIntents == {"current_events", "factual_query", "general", "greeting"}

\* the base with the addition after it
Added(base, addition) ==
    IF addition = <<>> THEN base
    ELSE IF base = <<>> THEN addition
    ELSE base \o <<" ">> \o addition

\* an intent analysis with the primary intent given
IntentOf(intent) ==
    [language |-> "indonesian", primary_intent |-> intent, complexity |-> "medium",
     response_style |-> _get_response_style(intent, "medium")]

GroundInputs ==
    {[intent |-> intent, base |-> base, addition |-> addition] :
        intent \in GroundIntents, base \in GroundBases, addition \in GroundAdditions}

InitGround ==
    /\ ParkedDatabase
    /\ input \in GroundInputs
    /\ output = None

should_ground_call ==
    /\ output = None
    /\ output' = [kind |-> "should_ground",
                  result |-> _should_use_grounding(IntentOf(input.intent),
                                                   Added(input.base, input.addition))]
    /\ UNCHANGED <<config, database, call, input>>

NextGround == should_ground_call

SpecGround == InitGround /\ [][NextGround]_vars

(* analyze_intent on messages that score in several categories (SpecIntent) *)

\* words of the intent categories: none, urgent_help, detailed_explanation,
\* factual_query
IntentPieces == <<<<"o","k">>, <<"h","e","l","p">>, <<"h","o","w">>, <<"h","a","r","g","a">>>>

MaxIntentPieces == 3

\* the messages of up to MaxIntentPieces words, separated by single spaces
IntentTexts ==
    UNION {{Join(Tuple([i \in 1..n |-> IntentPieces[choice[i]]]), <<" ">>) :
                choice \in [1..n -> 1..Len(IntentPieces)]} : n \in 0..MaxIntentPieces}

InitIntent ==
    /\ ParkedDatabase
    /\ input \in IntentTexts
    /\ output = None

intent_call ==
    /\ output = None
    /\ output' = [kind |-> "intent", result |-> analyze_intent(input, "")]
    /\ UNCHANGED <<config, database, call, input>>

NextIntent == intent_call

SpecIntent == InitIntent /\ [][NextIntent]_vars

(* _get_complexity and _get_response_style on every intent (SpecStyle) *)

\* messages of each complexity: a reasoning word, an acknowledgement alone,
\* an acknowledgement in other case or with more text, and plain text
StyleMessages ==
    {<<"w","h","y">>, <<"W","H","Y"," ","o","k">>, <<"o","k">>, <<"O","K">>, <<"T","h","a","n","k",
        "s">>, <<"t","e","r","i","m","a"," ","k","a","s","i","h">>, <<"o","k"," ","o","k">>, <<"h",
        "a","l","o">>}

\* the intents analyze_intent can resolve: every category and the default
StyleIntents == {intent_patterns[k].intent : k \in 1..Len(intent_patterns)} \cup {"general"}

InitStyle ==
    /\ ParkedDatabase
    /\ input \in [intent : StyleIntents, message : StyleMessages]
    /\ output = None

style_call ==
    /\ output = None
    /\ output' = [kind |-> "style",
                  complexity |-> _get_complexity(input.message),
                  response_style |-> _get_response_style(input.intent,
                                                         _get_complexity(input.message))]
    /\ UNCHANGED <<config, database, call, input>>

NextStyle == style_call

SpecStyle == InitStyle /\ [][NextStyle]_vars

(* detect_language on texts with ties and with low scores (SpecDetect) *)

\* one word of a pattern of spanish and of french, one of a pattern of
\* indonesian, and one keyword of german
LanguageWords == <<<<"l","a">>, <<"y","a","n","g">>, <<"w","i","e">>>>

MaxLanguageWords == 2

\* a word no language knows
padding_word == <<"q">>

\* how many padding words follow: with one pattern match, 9 give the score 0.1
\* and 10 less; with one keyword, 19 give 0.1 and 20 less
Paddings == {0, 9, 10, 19, 20}

Padded(words, n) == words \o [i \in 1..n |-> padding_word]

DetectTexts ==
    UNION {{Join(Padded(Tuple([i \in 1..n |-> LanguageWords[choice[i]]]), p), <<" ">>) :
                choice \in [1..n -> 1..Len(LanguageWords)], p \in Paddings} :
           n \in 0..MaxLanguageWords}
    \cup {<<" ">>, <<" ", " ">>}

InitDetect ==
    /\ ParkedDatabase
    /\ input \in DetectTexts
    /\ output = None

detect_call ==
    /\ output = None
    /\ output' = [kind |-> "language", result |-> detect_language(input)]
    /\ UNCHANGED <<config, database, call, input>>

NextDetect == detect_call

SpecDetect == InitDetect /\ [][NextDetect]_vars

(* detect_command on messages without the command prefix (SpecNatural) *)

\* a word of each pattern of help, the word of settings, a direct-address cue
NaturalPieces == <<<<"h","e","l","p">>, <<"c","o","m","m","a","n","d","s">>, <<"s","e","t","t","i",
    "n","g","s">>, <<"b","o","t">>>>

MaxNaturalPieces == 3

NaturalTexts ==
    UNION {{Join(Tuple([i \in 1..n |-> NaturalPieces[choice[i]]]), <<" ">>) :
                choice \in [1..n -> 1..Len(NaturalPieces)]} : n \in 0..MaxNaturalPieces}

InitNatural ==
    /\ ParkedDatabase
    /\ input \in NaturalTexts
    /\ output = None

natural_call ==
    /\ output = None
    /\ output' = [kind |-> "natural", result |-> detect_command(input)]
    /\ UNCHANGED <<config, database, call, input>>

NextNatural == natural_call

SpecNatural == InitNatural /\ [][NextNatural]_vars

(* the history block of the prompts, on histories of each length (SpecHistory) *)

\* the turns a history is made of
TurnKinds == <<
    [message_text |-> <<"h","a","l","o">>, response_text |-> <<"h","a","i">>],
    [message_text |-> <<"p","i","n","g">>, response_text |-> <<"p","o","n","g">>] >>

\* the longest history
MaxTurns == 7

\* the histories of n turns, in the order of their timestamps
Histories(n) ==
    {Tuple([k \in 1..n |-> [message_text |-> TurnKinds[choice[k]].message_text,
                            response_text |-> TurnKinds[choice[k]].response_text,
                            timestamp |-> k]]) :
        choice \in [1..n -> 1..Len(TurnKinds)]}

InitHistory ==
    /\ ParkedDatabase
    /\ input \in UNION {Histories(n) : n \in 0..MaxTurns}
    /\ output = None

\* the history block, and the prompt of _generate_standard_response that holds it
history_rendered ==
    /\ output = None
    /\ output' = [kind |-> "history",
                  context |-> _build_conversation_context(input),
                  prompt |-> full_prompt(<<"h","a","l","o">>, _default_intent, None, input)]
    /\ UNCHANGED <<config, database, call, input>>

NextHistory == history_rendered

SpecHistory == InitHistory /\ [][NextHistory]_vars

(* the steps of _post_process_response on texts of several sentences (SpecSentences) *)

\* a forbidden opener, a word, the sentence delimiter, a space
SentencePieces == <<<<"T","e","n","t","u">>, <<"o","k">>, <<".">>, <<" ">>>>

MaxSentencePieces == 4

SentenceTexts ==
    UNION {{Concat([i \in 1..n |-> SentencePieces[choice[i]]]) :
                choice \in [1..n -> 1..Len(SentencePieces)]} : n \in 0..MaxSentencePieces}

AllLengths == {"short", "medium", "long"}

InitSentences ==
    /\ ParkedDatabase
    /\ input \in {[text |-> text, length |-> length] :
                     text \in SentenceTexts, length \in AllLengths}
    /\ output = None

\* _post_process_response, with the text after the opener step and after the
\* clean-up (a falsy text is returned before both)
post_process_steps ==
    /\ output = None
    /\ output' = [kind |-> "post",
                  opened |-> IF input.text = <<>> THEN <<>> ELSE OpenedText(input.text),
                  cleaned |-> IF input.text = <<>> THEN <<>>
                              ELSE CleanedText(OpenedText(input.text)),
                  text |-> _post_process_response(input.text, StyleOf(input.length))]
    /\ UNCHANGED <<config, database, call, input>>

NextSentences == post_process_steps

SpecSentences == InitSentences /\ [][NextSentences]_vars

(* two invocations of the classifiers, interleaved (SpecConcurrent) *)

ConcurrentMessages == {<<"/","h","e","l","p">>, <<"h","a","l","o">>, <<"h","a","r","g","a"," ","e",
    "m","a","s">>, <<"h","e","l","p"," ","b","o","t">>}

Invocations == 1..2

\* an invocation before its first call
Started ==
    [pc |-> 0, language |-> None, intent_analysis |-> None, command_info |-> None,
     use_grounding |-> FALSE]

InitConcurrent ==
    /\ ParkedDatabase
    /\ input \in [Invocations -> ConcurrentMessages]
    /\ output = [kind |-> "classified", done |-> [i \in Invocations |-> Started],
                 logged |-> <<>>]

\* the calls read self.intent_patterns, self.command_patterns,
\* self.grounding_patterns and LANGUAGE_PATTERNS and assign no attribute; what
\* they write goes to the logger
detect_language_step(i) ==
    /\ output.done[i].pc = 0
    /\ output' = [output EXCEPT !.done[i].pc = 1,
                                !.done[i].language = detect_language(input[i])]
    /\ UNCHANGED <<config, database, call, input>>

analyze_intent_step(i) ==
    /\ output.done[i].pc = 1
    /\ output' = [output EXCEPT !.done[i].pc = 2,
                                !.done[i].intent_analysis = analyze_intent(input[i], "")]
    /\ UNCHANGED <<config, database, call, input>>

detect_command_step(i) ==
    /\ output.done[i].pc = 2
    /\ output' = [output EXCEPT !.done[i].pc = 3,
                                !.done[i].command_info = detect_command(input[i])]
    /\ UNCHANGED <<config, database, call, input>>

should_ground_step(i) ==
    /\ output.done[i].pc = 3
    /\ output' = [output EXCEPT
          !.done[i].pc = 4,
          !.done[i].use_grounding =
              _should_use_grounding(output.done[i].intent_analysis, input[i]),
          !.logged = @ \o GroundingLogged(output.done[i].intent_analysis, input[i])]
    /\ UNCHANGED <<config, database, call, input>>

NextConcurrent ==
    \E i \in Invocations :
        \/ detect_language_step(i)
        \/ analyze_intent_step(i)
        \/ detect_command_step(i)
        \/ should_ground_step(i)

SpecConcurrent == InitConcurrent /\ [][NextConcurrent]_vars

(***************************************************************************)
(* The handlers on a database that holds an earlier conversation           *)
(* (SpecContext): the database file outlives the process, so a run starts   *)
(* with the turns and the settings an earlier run left.  The provider gives *)
(* short replies here.                                                      *)
(***************************************************************************)
\* the exchange of an earlier run: "halo" answered with "ok" by the model
earlier_message == <<"h","a","l","o">>

earlier_reply == <<"o","k">>

\* the settings an earlier run left for user 1: none, context switched off,
\* or the limit set to 1
EarlierSettings ==
    {<<>>,
     set_user_context_settings(<<>>, 1, FALSE, default_max_context),
     set_user_context_settings(<<>>, 1, TRUE, 1)}

InitContext ==
    /\ GEMINI_ENABLED \in BOOLEAN
    /\ \E ok \in BOOLEAN : Configured(ok)
    /\ keywords = (<<"p","i","n","g">> :> [response |-> <<"p","o","n",
        "g">>, usage_count |-> 0, is_active |-> TRUE])
    /\ users = [u \in Users |-> [message_count |-> IF u = 1 THEN 1 ELSE 0]]
    /\ message_history =
          log_message(<<>>, -2, 1, earlier_message, Str(earlier_reply), "ai", None)
    /\ conversation_context =
          add_conversation_message(<<>>, <<>>, -1, 1, earlier_message, earlier_reply, None)
    /\ user_conversation_settings \in EarlierSettings
    /\ clock = 0
    /\ call = NoCall
    /\ input = None
    /\ output = None

\* the longest reply of the provider
MaxReplyLength == 20

ShortReplies ==
    /\ Len(call.grounded_reply.text) <= MaxReplyLength
    /\ Len(call.standard_reply.text) <= MaxReplyLength

NextContext ==
    \/ \E user_id \in Users, text \in TelegramTexts : handle_message(user_id, text)
    \/ \E user_id \in Users \cup {NoUser}, message \in Messages : chat(user_id, message)
    \/ \E user_id \in Users, caption \in Captions, outcome \in ImageOutcomes,
          reply \in VisionReplies :
            handle_image(user_id, caption, outcome, reply) /\ ShortReplies'
    \/ \E user_id \in Users, args \in SettingsArgs : conversation_settings(user_id, args)
    \/ \E user_id \in Users : clear_conversation(user_id)
    \/ generate_response /\ ShortReplies'
    \/ _generate_grounded_response
    \/ _generate_standard_response
    \/ handle_message_reply
    \/ chat_return
    \/ handler_returns

SpecContext == InitContext /\ [][NextContext]_vars

(***************************************************************************)
(* The claims.                                                              *)
(***************************************************************************)
\* generate_response has returned to handle_message or to chat
Returned == call.pc = "Returned"

\* the grounded call failed: it raised, or its response has no text
GroundedFailed == call.grounded_reply = Raise \/ call.grounded_reply.text = <<>>

\* the invocation took the grounded path
TookGroundedPath == call.calls # <<>> /\ call.calls[1] = "grounded"

\* C1: when the grounded call fails (it raises, or its response has an empty
\* or missing text), the generator falls back to the standard path with the
\* same message, and returns what the standard path produces whenever that is
\* a non-empty answer.
C1_GroundedFailureFallsBack ==
    (Returned /\ TookGroundedPath /\ GroundedFailed)
        => /\ call.calls = <<"grounded", "standard">>
           /\ Generated(call.standard_reply, call.intent_analysis) # None
                => call.result = Generated(call.standard_reply, call.intent_analysis)

\* detect_command of the message of the call
DetectedCommand == AnalysisOf(call.message).command_info

\* the confidence of the detection is above 0.6
Confident06(command_info) ==
    command_info.kind = "Detection" /\ RatLt(Rat(6, 10), command_info.confidence)

\* C2: in every invocation in which detect_command returns a detection with a
\* confidence above 0.6, generate_response ends in CommandReply, returns the
\* suggestion of that command and calls no model; with a detection of
\* confidence 0.6 or less it goes on to the intent analysis and the
\* generation. The detection is the one detect_command gives for the message.
C2_CommandReply ==
    Returned
        => /\ Confident06(call.command_info)
                 => /\ call.state = "CommandReply"
                    /\ call.result = Suggestion(call.command_info.command)
                    /\ call.calls = <<>>
           /\ (call.command_info.kind = "Detection" /\ ~Confident06(call.command_info))
                 => /\ call.state # "CommandReply"
                    /\ call.intent_analysis = AnalysisOf(call.message).intent_analysis
                    /\ call.calls # <<>>
           /\ (text_model /\ DetectedCommand.kind # "Raised")
                 => call.command_info = DetectedCommand

C2_Witness ==
    /\ Returned
    /\ Confident06(call.command_info)
    /\ call.state = "CommandReply"
    /\ call.result = Str(suggestions[1].suggestion)

\* the most recent n of the rows, oldest first
MostRecent(rows, n) ==
    SubSeq(OrderByTimestamp(rows),
           IF Len(rows) > n THEN Len(rows) - n + 1 ELSE 1, Len(rows))

TurnsOf(rows) ==
    Tuple([k \in 1..Len(rows) |->
              [message_text |-> rows[k].message_text,
               response_text |-> rows[k].response_text,
               timestamp |-> rows[k].timestamp]])

\* C3: after any sequence of add_conversation_message,
\* set_user_context_settings and clear_conversation_context,
\* get_conversation_context(user) returns the most recent N turns of the
\* user, oldest first, N being the smaller of the user's limit and the number
\* of turns stored.
C3_MostRecentTurns ==
    output.kind = "turns"
        => output.turns =
              TurnsOf(MostRecent(RowsOf(conversation_context, output.user_id),
                                 get_user_context_limit(user_conversation_settings,
                                                        output.user_id)))

\* the directive of a language: its own instruction, or the one of the
\* fallback language "indonesian"
Directive(language) ==
    IF \E k \in 1..Len(lang_instructions) : lang_instructions[k].language = language
    THEN lang_instructions[CHOOSE k \in 1..Len(lang_instructions) :
                              lang_instructions[k].language = language].instruction
    ELSE lang_instructions[1].instruction

\* the fixed head of a prompt, before the style block
PreambleOf(path, intent_analysis) ==
    IF path = "vision" THEN VisionPreamble(intent_analysis) ELSE SystemPreamble(intent_analysis)

\* C4 as stated: every prompt assembled for a model call begins with the
\* language directive of intent_analysis.language; nothing precedes it.
C4_PromptBeginsWithDirective ==
    output.kind = "prompt" => output.prompt[1] = Directive(input.intent_analysis.language)

\* C4, amended: the style block get_response_prompt builds begins with the
\* language directive (the fallback language's for an unmapped language), and
\* every prompt assembled for a model call holds that block, whole, right
\* after its fixed preamble: the directive is never dropped, and only the
\* preamble precedes it.
C4_DirectiveHeadsStyleBlock ==
    output.kind = "prompt"
        => LET preamble == PreambleOf(output.path, input.intent_analysis) IN
           /\ output.style_prompt[1] = Directive(input.intent_analysis.language)
           /\ Len(output.prompt) >= Len(preamble) + Len(output.style_prompt)
           /\ SubSeq(output.prompt, 1, Len(preamble)) = preamble
           /\ SubSeq(output.prompt, Len(preamble) + 1,
                     Len(preamble) + Len(output.style_prompt)) = output.style_prompt

C4_Witness ==
    /\ output.kind = "prompt"
    /\ output.path = "vision"
    /\ input.intent_analysis.language = "klingon"
    /\ input.conversation_history # <<>>

\* the text is within the cap of two sentences a short answer has
WithinCap(text, length) == length = "short" => Len(SplitOn(text, ".")) <= 2

\* C5: post_process is idempotent on every text that does not start with a
\* forbidden opener and is within the sentence cap, texts with the robot
\* emoji or with whitespace before an opener word included.
C5_Idempotent ==
    (/\ output.passes = 2
     /\ ~StartsForbidden(input.text)
     /\ WithinCap(input.text, input.length))
        => output.text = output.first

\* empty, whitespace only, or the command prefix followed by whitespace only
Degenerate(text) ==
    \/ \A i \in 1..Len(text) : IsSpace(text[i])
    \/ text[1] = "/" /\ \A i \in 2..Len(text) : IsSpace(text[i])

\* C6: on an empty text, on whitespace, on a bare command prefix and on a
\* prefix followed by whitespace, detect_command returns null and
\* analyze_intent returns the default or a normal analysis; neither raises.
C6_DefaultsNeverRaise ==
    /\ (output.kind = "detect_command" /\ Degenerate(input)) => output.result = None
    /\ output.kind = "detect_command" => output.result.kind # "Raised"
    /\ (output.kind = "analyze_intent" /\ input = <<>>) => output.result = _default_intent
    /\ output.kind = "analyze_intent" => output.result.message_length = Len(Split(input))

\* C7: on a text made only of one keyword of a language L, repeated any
\* number of times, detect_language returns L with a confidence of at least 0.1.
C7_KeywordsDetected ==
    output.kind = "detected"
        => /\ output.result.language = input.language
           /\ ~RatLt(output.result.confidence, Rat(1, 10))

\* the cap of the reply of a handler, and the last characters of a text
CapOf(handler) == IF handler = "handle_image" THEN image_cap ELSE reply_cap

EndsWith(s, p) == Len(p) <= Len(s) /\ SubSeq(s, Len(s) - Len(p) + 1, Len(s)) = p

\* C8: a model text longer than the cap (10,000 characters for chat, 4,000
\* for an image) reaches the user truncated, with the ellipsis at its end and
\* no longer than the cap; a text within the cap reaches the user unchanged;
\* for every caller, the chat transport and the HTTP API.
C8_ReplyWithinCap ==
    (call.pc = "Replied" /\ call.state = "PostProcessed")
        => IF Len(call.result.value) > CapOf(call.handler)
           THEN /\ Len(call.reply.value) <= CapOf(call.handler)
                /\ EndsWith(call.reply.value, ellipsis)
           ELSE call.reply = call.result

\* every model call the invocation made raised
EveryCallRaised ==
    \/ call.calls = <<"standard">> /\ call.standard_reply = Raise
    \/ /\ call.calls = <<"grounded", "standard">>
       /\ call.grounded_reply = Raise
       /\ call.standard_reply = Raise

\* C9: generate_response never lets an exception reach its caller; without a
\* configured model it returns null and calls no model; when every generation
\* path it tries raises it ends in Failed and returns null.
C9_NeverPropagates ==
    Returned
        => /\ call.state \in {"CommandReply", "PostProcessed", "Failed"}
           /\ call.result = None \/ call.result.kind = "str"
           /\ ~text_model => (call.state = "Failed" /\ call.result = None /\ call.calls = <<>>)
           /\ EveryCallRaised => (call.state = "Failed" /\ call.result = None)

C9_Witness ==
    /\ Returned
    /\ text_model
    /\ DetectedCommand.kind = "Raised"
    /\ call.state = "Failed"

\* C10: one invocation of generate_response makes at most one grounded and at
\* most one standard call; a standard call follows a grounded call only when
\* the grounded call failed; the grounded path is entered only when
\* should_ground holds and there is a grounding client.
C10_CallsPerInvocation ==
    call.handler \in {"handle_message", "chat"}
        => /\ call.calls \in {<<>>, <<"grounded">>, <<"standard">>, <<"grounded", "standard">>}
           /\ call.calls = <<"grounded", "standard">> => GroundedFailed
           /\ TookGroundedPath => (call.use_grounding /\ grounding_client)
           /\ call.pc = "GroundedGeneration" => (call.use_grounding /\ grounding_client)

C10_Witness ==
    /\ Returned
    /\ call.calls = <<"grounded", "standard">>
    /\ call.state = "PostProcessed"

\* C11: analyze_image fails closed: on image bytes that cannot be decoded it
\* returns null and makes no vision-model call, and whatever the decoder or
\* the model does, what reaches the caller is null or a text, never an
\* exception.
C11_FailsClosed ==
    output.kind = "analyze_image"
        => /\ ~input.image_data.decodes
                 => (output.outcome.result = None /\ output.outcome.calls = <<>>)
           /\ output.outcome.result = None \/ output.outcome.result.kind = "str"
           /\ (output.outcome.calls # <<>> /\ input.reply = Raise)
                 => output.outcome.result = None

C11_Witness ==
    /\ output.kind = "analyze_image"
    /\ input.model
    /\ ~input.image_data.decodes
    /\ input.reply.kind = "response" /\ input.reply.text # <<>>
    /\ output.outcome.result = None

\* the core returned null or an empty text to the handler of a text message
CoreGaveNothing ==
    /\ call.handler \in {"handle_message", "chat"}
    /\ call.state \in {"Failed", "PostProcessed", "CommandReply"}
    /\ ~Truthy(call.result)

\* C12: whenever the core returns null or an empty text for a text message,
\* the caller, the chat handler or the HTTP /chat endpoint, answers the user
\* with the fixed apology; the null reply is never what is delivered.
C12_ApologyOnNull ==
    (call.pc = "Replied" /\ CoreGaveNothing) => call.reply = Str(error_response)

\* the intents that ground whatever the message is
ShortCircuits(intent) == intent \in {"current_events", "factual_query"}

\* C13: should_ground is true for every message whose intent analysis has the
\* primary intent current_events or factual_query, whatever the text of the
\* message and its grounding score.
C13_IntentShortCircuit ==
    (output.kind = "should_ground" /\ ShortCircuits(input.intent)) => output.result

C13_Witness ==
    /\ output.kind = "should_ground"
    /\ input.intent = "factual_query"
    /\ input.base = <<"h","a","l","o">>
    /\ input.addition = <<>>
    /\ output.result

\* one of the always_ground patterns matches the message
AlwaysGrounds(message_lower) ==
    \E k \in 1..Len(always_ground_patterns) :
        Search(IgnoreCase(always_ground_patterns[k]), message_lower)

\* C14: on a message on which should_ground is false, adding a match of an
\* always_ground pattern makes should_ground true; and a message that an
\* always_ground pattern matches grounds whatever its score.
C14_AlwaysGroundFlips ==
    output.kind = "should_ground"
        => /\ (/\ input.addition # <<>>
               /\ ~_should_use_grounding(IntentOf(input.intent), input.base))
                 => output.result
           /\ AlwaysGrounds(Lower(Added(input.base, input.addition))) => output.result

C14_Witness ==
    /\ output.kind = "should_ground"
    /\ input.intent = "general"
    /\ input.base = <<"h","a","l","o">>
    /\ input.addition = <<"l","i","v","e">>
    /\ output.result

\* the matches of the patterns of one tier, counted
TierCount(patterns, message_lower) ==
    SumSeq([k \in 1..Len(patterns) |-> FindAll(IgnoreCase(patterns[k]), message_lower)])

\* the patterns of the list that are found, counted
GroupCount(patterns, message_lower) ==
    Cardinality({k \in 1..Len(patterns) : Search(IgnoreCase(patterns[k]), message_lower)})

\* the score as C15 states it
StatedScore(message, message_lower) ==
      3 * TierCount(grounding_patterns[1].patterns, message_lower)
    + 2 * TierCount(grounding_patterns[2].patterns, message_lower)
    + TierCount(grounding_patterns[3].patterns, message_lower)
    + GroupCount(question_indicators, message_lower)
    + 2 * GroupCount(time_keywords, message_lower)
    + GroupCount(factual_indicators, message_lower)
    + (IF HasProperNoun(message) THEN 1 ELSE 0)
    + (IF HasNumber(message) THEN 1 ELSE 0)
    + 2 * GroupCount(domain_keywords, message_lower)
    + GroupCount(uncertainty_indicators, message_lower)

ScoreDecides(message, result) ==
    ~AlwaysGrounds(Lower(message)) => (result <=> StatedScore(message, Lower(message)) >= 2)

\* C15: when the intent is neither current_events nor factual_query and no
\* always_ground pattern matches, should_ground is true exactly when the score
\* is at least 2: the matches of the three tiers weighted 3, 2 and 1, plus 1
\* for each interrogative group, 2 for each time pattern, 1 for each factual
\* indicator, 1 for a proper noun, 1 for a number, 2 for each domain pattern
\* and 1 for each uncertainty pattern found.
C15_ScoreThreshold ==
    (output.kind = "should_ground" /\ ~ShortCircuits(input.intent))
        => ScoreDecides(Added(input.base, input.addition), output.result)

C15_Witness ==
    /\ output.kind = "should_ground"
    /\ input.intent = "general"
    /\ input.base = <<"v","s">>
    /\ input.addition = <<>>
    /\ output.result

\* the score of one intent category as C16 states it: the matches of its
\* patterns, counted, times the weight of the category
StatedIntentScore(data, message_lower) ==
    data.weight * SumSeq([k \in 1..Len(data.patterns) |->
                             FindAll(IgnoreCase(data.patterns[k]), message_lower)])

StatedIntentScores(message_lower) ==
    Tuple([k \in 1..Len(intent_patterns) |->
              StatedIntentScore(intent_patterns[k], message_lower)])

\* general exactly when every score is 0; otherwise the first category, in
\* the order of intent_patterns, whose score is the greatest
IntentRule(scores, primary_intent) ==
    /\ primary_intent = "general" <=> \A k \in 1..Len(scores) : scores[k] = 0
    /\ primary_intent # "general"
          => \E k \in 1..Len(scores) :
                /\ intent_patterns[k].intent = primary_intent
                /\ \A j \in 1..Len(scores) : scores[j] <= scores[k]
                /\ \A j \in 1..(k - 1) : scores[j] < scores[k]

\* C16: analyze_intent gives the primary intent general exactly when every
\* intent category scores 0; otherwise the primary intent is a category of
\* the greatest score, the first of them in the fixed order of the
\* categories.
C16_PrimaryIntent ==
    output.kind = "intent"
        => IntentRule(StatedIntentScores(Strip(Lower(input))), output.result.primary_intent)

C16_Witness ==
    /\ output.kind = "intent"
    /\ input = <<"h","e","l","p"," ","h","o","w">>
    /\ output.result.primary_intent = "detailed_explanation"

\* the base length of the table: detailed_explanation long, simple_question and
\* greeting short, urgent_help and all others medium
StatedBaseLength(intent) ==
    CASE intent = "detailed_explanation" -> "long"
      [] intent \in {"simple_question", "greeting"} -> "short"
      [] OTHER -> "medium"

StatedLength(intent, complexity) ==
    IF StatedBaseLength(intent) = "short" /\ complexity = "high" THEN "medium"
    ELSE IF complexity = "low" THEN "short"
    ELSE StatedBaseLength(intent)

\* C17: for every (primary_intent, complexity) pair the resolved
\* response_style.length is one of short/medium/long and is the table's base
\* length adjusted: a short base with complexity high becomes medium,
\* complexity low forces short whatever the intent, otherwise the base is kept
C17_StyleLength ==
    (output.kind = "style") =>
        /\ output.response_style.length \in {"short", "medium", "long"}
        /\ output.response_style.length = StatedLength(input.intent, output.complexity)

\* a detailed explanation (base long) asked with a bare acknowledgement is
\* forced to short
C17_Witness ==
    /\ output.kind = "style"
    /\ input.intent = "detailed_explanation"
    /\ output.complexity = "low"
    /\ output.response_style.length = "short"

\* the first language, in the order of LANGUAGE_PATTERNS, whose score is the maximum
FirstOfMaximum(scores) ==
    CHOOSE i \in 1..Len(scores) :
        /\ \A j \in 1..Len(scores) : scores[i] >= scores[j]
        /\ ~ \E j \in 1..(i - 1) : scores[j] = scores[i]

StatedBest(scores, tokens, best, result) ==
    IF scores[best] * 10 < tokens THEN result = FallbackLanguage
    ELSE /\ result.language = LANGUAGE_PATTERNS[best].lang
         /\ RatEq(result.confidence,
                  IF scores[best] > tokens THEN Rat(1, 1) ELSE Rat(scores[best], tokens))
         /\ ~RatLt(result.confidence, Rat(1, 10))
         /\ ~RatLt(Rat(1, 1), result.confidence)

StatedScored(scores, tokens, result) ==
    StatedBest(scores, tokens, FirstOfMaximum(scores), result)

StatedLower(text_lower, result) ==
    StatedScored(LanguageScores(LANGUAGE_PATTERNS, text_lower), Len(Split(text_lower)), result)

StatedDetection(text, result) ==
    IF \A i \in 1..Len(text) : text[i] = " " THEN result = FallbackLanguage
    ELSE StatedLower(Strip(Lower(text)), result)

AfterPrefix(message) == Split(Tail(message))

\* the entries of the alias table named by the lower-cased first word
AliasesOf(parts) ==
    IF parts = <<>> THEN {}
    ELSE {k \in 1..Len(explicit_mapping) : explicit_mapping[k].alias = Lower(parts[1])}

StatedExplicit(aliases, result) ==
    IF aliases = {} THEN result = None
    ELSE /\ result.kind = "Detection"
         /\ \E k \in aliases : result.command = explicit_mapping[k].command
         /\ RatEq(result.confidence, Rat(1, 1))
         /\ result.explicit

\* C19: for a message that starts with the command prefix, detect_command
\* returns the command with confidence 1.0 and explicit true when the
\* lower-cased first word after the prefix is in the alias table, and null
\* otherwise, whatever the rest of the message matches.
C19_PrefixedExplicitOrNull ==
    (output.kind = "detect_command" /\ input # <<>> /\ input[1] = "/")
        => StatedExplicit(AliasesOf(AfterPrefix(input)), output.result)

\* 2 per matching pattern of the category, plus 1 for a direct-address cue
StatedCommandScore(category, message_lower) ==
    SumSeq([k \in 1..Len(category.patterns) |->
                IF Search(IgnoreCase(category.patterns[k]), message_lower) THEN 2 ELSE 0])
    + (IF Search(IgnoreCase(direct_address), message_lower) THEN 1 ELSE 0)

StatedCommandScores(message_lower) ==
    Tuple([c \in 1..Len(command_patterns) |->
              StatedCommandScore(command_patterns[c], message_lower)])

StatedNatural(scores, result) ==
    IF \A c \in 1..Len(scores) : scores[c] < 2 THEN result = None
    ELSE \E c \in 1..Len(scores) :
            /\ scores[c] >= 2
            /\ \A d \in 1..(c - 1) : scores[d] < 2
            /\ result.kind = "Detection"
            /\ result.command = command_patterns[c].command
            /\ RatEq(result.confidence, IF scores[c] >= 4 THEN Rat(1, 1) ELSE Rat(scores[c], 4))
            /\ ~result.explicit

\* C20: for a message without the command prefix, detect_command scores each
\* category in fixed order as 2 per matching pattern plus 1 for a
\* direct-address cue, returns the first category whose score is at least 2
\* with confidence min(score/4, 1.0) and explicit false, and returns null when
\* no category reaches 2
C20_NaturalScoring ==
    (output.kind = "natural") =>
        StatedNatural(StatedCommandScores(Strip(Lower(input))), output.result)

\* "bot settings": help scores 1 by the cue alone and is passed over, settings
\* scores 3 and is returned with confidence 0.75
C20_Witness ==
    /\ output.kind = "natural"
    /\ input = <<"b","o","t"," ","s","e","t","t","i","n","g","s">>
    /\ output.result.kind = "Detection"
    /\ output.result.command = "settings"
    /\ RatEq(output.result.confidence, Rat(3, 4))

\* the number of turns the block holds
StatedTurns(conversation_history) ==
    IF Len(conversation_history) < 5 THEN Len(conversation_history) ELSE 5

\* the block is the heading, the m last turns in their order, each as a user
\* line and then its assistant line, and the closing line
StatedBlock(conversation_history, m, context) ==
    /\ Len(context) = 6 * m + 2
    /\ context[1] = Lit("\n\nPrevious Conversation:\n")
    /\ context[Len(context)] = Lit("Use this context for relevant responses.")
    /\ \A i \in 1..m :
          LET turn == conversation_history[Len(conversation_history) - m + i]
              at == 6 * (i - 1) + 1
          IN  /\ context[at + 1] = Lit("User: ")
              /\ context[at + 2] = Text(turn.message_text)
              /\ context[at + 3] = Lit("\n")
              /\ context[at + 4] = Lit("Assistant: ")
              /\ context[at + 5] = Text(turn.response_text)
              /\ context[at + 6] = Lit("\n\n")

\* the block stands whole in the prompt, right before the user message
HeldBy(prompt, context) ==
    /\ Len(prompt) >= Len(context) + 2
    /\ SubSeq(prompt, Len(prompt) - 1 - Len(context), Len(prompt) - 2) = context
    /\ prompt[Len(prompt) - 1] = Lit("\n\nUser Message: ")

\* C21: for a conversation history of any length the rendered history block
\* holds exactly the last min(5, length) turns, in their original order, each
\* as a user line followed by its assistant line; an empty history yields no
\* history block
C21_LastFiveTurns ==
    (output.kind = "history") =>
        /\ IF input = <<>> THEN output.context = <<>>
           ELSE StatedBlock(input, StatedTurns(input), output.context)
        /\ HeldBy(output.prompt, output.context)
        /\ (input = <<>>) =>
              \A k \in 1..Len(output.prompt) :
                  output.prompt[k] # Lit("\n\nPrevious Conversation:\n")

\* a history of 7 turns whose two oldest turns differ from the third: the
\* block begins with the third turn
C21_Witness ==
    /\ output.kind = "history"
    /\ Len(input) = 7
    /\ input[1].message_text = <<"p","i","n","g">>
    /\ input[2].message_text = <<"p","i","n","g">>
    /\ input[3].message_text = <<"h","a","l","o">>
    /\ Len(output.context) = 32
    /\ output.context[3] = Text(<<"h","a","l","o">>)

\* an active keyword equals the message
KeywordEquals(message) ==
    /\ message \in DOMAIN keywords
    /\ keywords[message].is_active

TextHandlers == {"handle_message", "chat"}

\* C22: an inbound text message is matched against the keywords first: when
\* an active keyword equals the message, the stored response is the reply and
\* no model call is made for that message; the model is called only when no
\* keyword matches.
C22_KeywordBeforeModel ==
    /\ (/\ call.handler \in TextHandlers
        /\ call.message # <<>>
        /\ KeywordEquals(call.message))
          => /\ call.pc = "Replied"
             /\ call.reply = Str(keywords[call.message].response)
             /\ call.calls = <<>>
    /\ (/\ call.handler \in TextHandlers
        /\ \/ call.calls # <<>>
           \/ call.pc \in {"ReceivedMessage", "GroundedGeneration",
                           "StandardGeneration", "Returned"})
          => ~KeywordEquals(call.message)

\* the keyword "ping" answered with "pong" by the Telegram handler, without a
\* model call, on a bot whose model is available
C22_Witness ==
    /\ call.pc = "Replied"
    /\ call.handler = "handle_message"
    /\ call.message = <<"p","i","n","g">>
    /\ call.reply = Str(<<"p","o","n","g">>)
    /\ call.calls = <<>>
    /\ GEMINI_ENABLED
    /\ text_model

\* the first two sentences, rejoined with ". " and ending with "."
FirstTwoSentences(sentences) ==
    Join(SubSeq(sentences, 1, IF Len(sentences) < 2 THEN Len(sentences) ELSE 2), <<".", " ">>)
    \o <<".">>

\* C23 as stated: when response_style.length is short, post_process returns
\* only the first two '.'-delimited sentences of the cleaned text, in order,
\* rejoined and ending with '.'; when the length is medium or long, no
\* sentence is removed by the length step.
C23_ShortReturnsTwoSentences ==
    (output.kind = "post" /\ input.text # <<>>) =>
        IF input.length = "short"
        THEN output.text = FirstTwoSentences(SplitOn(output.cleaned, "."))
        ELSE output.text = output.cleaned

\* C23, amended: when response_style.length is short and the cleaned text has
\* more than two '.'-delimited sentences, post_process returns the first two,
\* in order, rejoined with ". " and ending with "."; a cleaned text of at most
\* two sentences is returned as it is, with no '.' added; when the length is
\* medium or long the length step removes nothing.
C23_ShortCutsAboveTwo ==
    (output.kind = "post" /\ input.text # <<>>) =>
        IF input.length = "short" /\ Len(SplitOn(output.cleaned, ".")) > 2
        THEN output.text = FirstTwoSentences(SplitOn(output.cleaned, "."))
        ELSE output.text = output.cleaned

\* "ok.ok." has three sentences, the last empty: a short answer is "ok. ok."
C23_Witness ==
    /\ output.kind = "post"
    /\ input.text = <<"o","k",".","o","k",".">>
    /\ input.length = "short"
    /\ output.text = <<"o","k","."," ","o","k",".">>

\* the position of the first '.' of the text
FirstDelimiter(text) == Least({i \in 1..Len(text) : text[i] = "."})

\* what follows the first '.', without the whitespace around it
AfterFirstSentence(text) == Strip(SubSeq(text, FirstDelimiter(text) + 1, Len(text)))

\* the leading sentence is dropped, up to and including the first '.', and a
\* stray '.' at the start of what is left is stripped
LeadingSentenceDropped(rest, opened) ==
    /\ \/ opened = rest
       \/ StartsWith(rest, <<".">>) /\ opened = Strip(Tail(rest))
    /\ ~StartsWith(opened, <<".">>)

\* C24: when the lower-cased raw text starts with a forbidden opener and has
\* more than one '.'-delimited sentence, post_process drops exactly the
\* leading sentence up to and including the first '.', and the result does
\* not start with a stray '.'; when there is only one sentence the text is
\* kept; a falsy raw text is returned as it is.
C24_OpenerSentenceDropped ==
    (output.kind = "post") =>
        /\ (input.text = <<>>) => output.text = <<>>
        /\ (input.text # <<>> /\ StartsForbidden(input.text)) =>
              IF FirstDelimiter(input.text) = 0 THEN output.opened = input.text
              ELSE LeadingSentenceDropped(AfterFirstSentence(input.text), output.opened)

\* what the calls of one invocation return when it runs alone
AsAlone(message, done) ==
    /\ done.pc >= 1 => done.language = detect_language(message)
    /\ done.pc >= 2 => done.intent_analysis = analyze_intent(message, "")
    /\ done.pc >= 3 => done.command_info = detect_command(message)
    /\ done.pc >= 4 =>
          done.use_grounding = _should_use_grounding(analyze_intent(message, ""), message)

\* the handles and the tables are as the invocations found them
StateUntouched ==
    /\ Parked
    /\ message_history = <<>>
    /\ conversation_context = <<>>
    /\ user_conversation_settings = <<>>
    /\ \A u \in DOMAIN users : users[u].message_count = 0
    /\ \A k \in DOMAIN keywords : keywords[k].usage_count = 0

\* C25: detect_language, analyze_intent, detect_command and should_ground
\* leave every piece of state unchanged and perform no I/O, so concurrent
\* invocations in any interleaving return what they return when run one after
\* another; the core never writes conversation turns.
C25_ClassifiersPure ==
    (output.kind = "classified") =>
        /\ StateUntouched
        /\ \A i \in Invocations : AsAlone(input[i], output.done[i])
        /\ output.logged = <<>>

\* the settings of a user as the getters report them
SettingsOf(settings, user_id) ==
    [context_enabled |-> is_context_enabled(settings, user_id),
     max_context_messages |-> get_user_context_limit(settings, user_id)]

\* C26: clear_conversation_context(user) removes all stored turns of that
\* user and nothing else: the user's context_enabled flag and
\* max_context_messages limit are after the call what they were before it,
\* and other users' turns and settings are unchanged.
C26_ClearRemovesTurnsOnly ==
    [][\A user_id \in StoreUsers :
          StoreClear(user_id) =>
              /\ RowsOf(conversation_context', user_id) = <<>>
              /\ SettingsOf(user_conversation_settings', user_id)
                    = SettingsOf(user_conversation_settings, user_id)
              /\ \A other \in StoreUsers \ {user_id} :
                    /\ RowsOf(conversation_context', other) = RowsOf(conversation_context, other)
                    /\ SettingsOf(user_conversation_settings', other)
                          = SettingsOf(user_conversation_settings, other)]_vars

\* C27: '/conversation on' and '/conversation off' change only the user's
\* context_enabled flag and leave a previously set limit unchanged;
\* '/conversation limit n' with 1 <= n <= 50 changes only the limit and leaves
\* context_enabled unchanged; a limit outside 1..50 changes nothing.
C27_SettingsChangeWhatTheyName ==
    [][\A user_id \in Users, args \in SettingsArgs :
          conversation_settings(user_id, args) =>
              IF args.command \in {"on", "off"}
              THEN SettingsOf(user_conversation_settings', user_id)
                      = [context_enabled |-> args.command = "on",
                         max_context_messages |->
                             get_user_context_limit(user_conversation_settings, user_id)]
              ELSE IF args.limit >= 1 /\ args.limit <= 50
              THEN SettingsOf(user_conversation_settings', user_id)
                      = [context_enabled |->
                             is_context_enabled(user_conversation_settings, user_id),
                         max_context_messages |-> args.limit]
              ELSE user_conversation_settings' = user_conversation_settings]_vars

\* the k last of the rows
LastRows(rows, k) == SubSeq(rows, Len(rows) - k + 1, Len(rows))

\* the stored turns of the user are the most recently added ones: the turn
\* just added, after the newest of the turns stored before, as many as the
\* limit admits
NewestKept(before, after, limit, now) ==
    /\ after # <<>>
    /\ Len(after) = (IF Len(before) + 1 < limit THEN Len(before) + 1 ELSE limit)
    /\ after[Len(after)].timestamp = now
    /\ SubSeq(after, 1, Len(after) - 1) = LastRows(before, Len(after) - 1)

\* C28: immediately after every add_conversation_message(user, ...), the
\* number of stored turns of that user is at most the user's current limit,
\* the stored turns are exactly the most recently added ones, the one just
\* added included, and no other user's turns were deleted.
C28_AddKeepsNewest ==
    [][\A user_id \in StoreUsers :
          StoreAdd(user_id) =>
              /\ Len(RowsOf(conversation_context', user_id))
                    <= get_user_context_limit(user_conversation_settings, user_id)
              /\ NewestKept(RowsOf(conversation_context, user_id),
                            RowsOf(conversation_context', user_id),
                            get_user_context_limit(user_conversation_settings, user_id),
                            clock)
              /\ \A other \in StoreUsers \ {user_id} :
                    RowsOf(conversation_context', other) = RowsOf(conversation_context, other)]_vars

\* with the limit of user 1 at 1, the turn of user 1 added last, at the time
\* MaxStoreClock - 1, is the only one stored for user 1, and a turn of user 2
\* is stored still
C28_Witness ==
    /\ Len(RowsOf(conversation_context, 1)) = 1
    /\ RowsOf(conversation_context, 1)[1].timestamp = MaxStoreClock - 1
    /\ Len(RowsOf(conversation_context, 2)) = 1
    /\ get_user_context_limit(user_conversation_settings, 1) = 1
    /\ clock = MaxStoreClock

\* the stored flag of the user, enabled when no row is stored
ContextOn(user_id) ==
    user_id \in DOMAIN user_conversation_settings
        => user_conversation_settings[user_id].context_enabled

\* the replies that are not replies of the model: the keyword responses, the
\* generic apology, the AI-offline notices and the image error replies
NeverAppended ==
    {keywords[k].response : k \in DOMAIN keywords}
        \cup {error_response, offline_response, image_offline_response,
              image_download_error, image_format_error, image_error_response}

\* the rows a step adds to conversation_context
AppendedRows == {row \in Range(conversation_context') : row \notin Range(conversation_context)}

\* the row is the message of the call and the reply the handler sends, which
\* is the non-empty result of the core that the handler got
SuccessfulPair(row) ==
    \/ /\ call.pc = "Returned"
       /\ call.handler = "handle_message"
       /\ Truthy(call.result)
       /\ row.user_id = call.user_id
       /\ row.message_text = call.message
       /\ row.response_text = call'.reply.value
       /\ call'.reply.value = Truncated(call.result.value, reply_cap, reply_keep)
    \/ /\ call.pc = "idle"
       /\ call'.handler = "handle_image"
       /\ Truthy(call'.result)
       /\ row.user_id = call'.user_id
       /\ row.response_text = call'.reply.value
       /\ call'.reply.value = Truncated(call'.result.value, image_cap, image_keep)

\* no stored turn holds a reply that is not one of the model, and the call
\* of a user whose context is disabled holds an empty history
OnlyModelReplies ==
    /\ \A k \in DOMAIN conversation_context :
          conversation_context[k].response_text \notin NeverAppended
    /\ (call.handler = "handle_message" /\ ~ContextOn(call.user_id))
          => call.conversation_history = <<>>

\* a step appends at most one turn, for a user whose context is enabled, and
\* the turn is a message with the successful reply to it
AppendsSuccessfulPairs ==
    /\ Cardinality(AppendedRows) <= 1
    /\ \A row \in AppendedRows :
          /\ ContextOn(row.user_id)
          /\ row.response_text \notin NeverAppended
          /\ SuccessfulPair(row)

\* C29: in every reachable state the conversation context of a user contains
\* only (user message, successful AI reply) pairs recorded while that user's
\* context was enabled: keyword replies, the generic apology, the AI-offline
\* notice and image error replies are never appended, and while context is
\* disabled an empty history is passed to the core and nothing is appended.
C29_ContextHoldsSuccessfulPairs ==
    /\ []OnlyModelReplies
    /\ [][AppendsSuccessfulPairs]_vars

\* user 1, whose context an earlier run disabled with a turn stored, got a
\* reply of the model to "halo": the core was given an empty history and the
\* stored turns are the ones of the earlier run
C29_Witness ==
    /\ call.pc = "Replied"
    /\ call.handler = "handle_message"
    /\ call.user_id = 1
    /\ Truthy(call.result)
    /\ call.reply = call.result
    /\ ~ContextOn(1)
    /\ call.conversation_history = <<>>
    /\ Len(conversation_context) = 1
    /\ conversation_context[1].timestamp < 0

\* the step is one of an invocation of handle_message
OfHandleMessage == call.handler = "handle_message" \/ call'.handler = "handle_message"

\* the step in which the handler sends its reply
Answers == call.pc # "Replied" /\ call'.pc = "Replied"

\* one entry more in message_history, for the message and the reply of the
\* call, and the count of the user of the call one higher
OneEntryOneCount ==
    /\ Len(message_history') = Len(message_history) + 1
    /\ SubSeq(message_history', 1, Len(message_history)) = message_history
    /\ message_history'[Len(message_history')].user_id = call'.user_id
    /\ message_history'[Len(message_history')].message_text = call'.message
    /\ message_history'[Len(message_history')].response_text = call'.reply.value
    /\ users' = [users EXCEPT ![call'.user_id].message_count = @ + 1]

\* C30: every text message handled by handle_message for a registered user,
\* whether answered by a keyword, by the AI, by the apology after a null core
\* result, or by the AI-offline notice, writes exactly one message_history
\* entry and increments that user's message count by exactly one: the step
\* that replies does both, and no other step of the invocation does either.
C30_OneEntryOneCountPerMessage ==
    [][OfHandleMessage =>
          IF Answers THEN OneEntryOneCount
          ELSE UNCHANGED <<message_history, users>>]_vars

\* the first message of user 1 got the apology after a null result of the
\* core: one entry is logged and the count of the user is 1
C30_Witness ==
    /\ call.pc = "Replied"
    /\ call.handler = "handle_message"
    /\ call.user_id = 1
    /\ call.result = None
    /\ call.reply = Str(error_response)
    /\ Len(message_history) = 1
    /\ message_history[1].response_text = error_response
    /\ users[1].message_count = 1
====
